---- MODULE Spec2Model ----
(***************************************************************************)
(* Semantic search and ranking core of the IT-problems tracker backend:    *)
(*   - embeddingService.js       lazy model loader, generateEmbedding,     *)
(*                               cosineSimilarity                          *)
(*   - externalSourcesService.js searchStackOverflow, searchYouTube,       *)
(*                               searchAllSources, combineAndRankResults   *)
(*   - supabaseService.js        semanticSearch                            *)
(* Each subsystem has its own specification over its own variables; the    *)
(* variables of the other subsystems keep their initial values.            *)
(*                                                                         *)
(* Numbers: JavaScript doubles are modelled in fixed point.  A similarity  *)
(* is an integer number of thousandths (1000 = 1.0), a fused rank score an *)
(* integer number of tenths of a point (1000 = 100 points).                *)
(***************************************************************************)
EXTENDS Integers, Sequences, FiniteSets, TLC

VARIABLES
    \* ---- embeddingService.js (module state and callers in flight)
    embedder,        \* let embedder = null            "null" | "model"
    isInitializing,  \* let isInitializing = false
    pc,              \* position of each caller inside its call
    kind,            \* which exported function the caller is running
    model,           \* value initializeModel returned to the caller
    outcome,         \* how the caller's call ended
    waited,          \* the caller went through the wait loop in this call
    text,            \* the text argument of the caller's generateEmbedding call
    loads,           \* model loads the caller's call has started
    inferences,      \* inferences the caller's call has started
    \* ---- externalSourcesService.js
    youtubeKey,      \* process.env.YOUTUBE_API_KEY is set
    saPc,            \* position of the searchAllSources call
    saQuery,         \* its query argument
    saCall,          \* the three promises handed to Promise.allSettled
    saCaught,        \* adapters of this call whose catch block ran
    saResult,        \* what searchAllSources returned or threw
    adapterCall,     \* last direct call of an adapter and its result
    \* ---- supabaseService.js semanticSearch
    store,           \* embeddings table: problem id -> stored vector value
    ssPc,            \* position of the semanticSearch call
    ssArgs,          \* its arguments and the query embedding
    ssEmbeddings,    \* rows read from the embeddings table
    ssTopMatches,    \* topMatches
    ssResult,        \* what semanticSearch returned or threw
    \* ---- embeddingService.js, one call at a time
    csCall,          \* a cosineSimilarity call: its vectors and what it did
    geCall,          \* a generateEmbedding call: its arguments, the model's output, its result
    \* ---- routes and middleware
    route,           \* a POST /api/search request: its body and what the route did
    metrics,         \* utils/metrics.js: metrics.requests
    answered,        \* requests the server has answered so far
    \* ---- supabaseService.js CRUD over the problems and embeddings tables
    problemsTable,   \* rows of the problems table
    embeddingsTable, \* rows of the embeddings table
    nextId,          \* the id of the next problems row (uuid_generate_v4)
    ops              \* the CRUD calls in flight

loaderVars == <<embedder, isInitializing, pc, kind, model, outcome, waited,
                text, loads, inferences>>
aggVars    == <<youtubeKey, saPc, saQuery, saCall, saCaught, saResult, adapterCall>>
searchVars == <<store, ssPc, ssArgs, ssEmbeddings, ssTopMatches, ssResult>>
pureVars   == <<csCall, geCall>>
httpVars   == <<route, metrics, answered>>
crudVars   == <<problemsTable, embeddingsTable, nextId, ops>>
restVars   == <<httpVars, crudVars>>
vars       == <<loaderVars, aggVars, searchVars, pureVars, restVars>>

----------------------------------------------------------------------------
(* Bounds *)

NCallers == 2

Callers == 1..NCallers

----------------------------------------------------------------------------
(* Generic helpers *)

Min(a, b) == IF a < b THEN a ELSE b
Max(a, b) == IF a > b THEN a ELSE b

Range(s) == {s[i] : i \in 1..Len(s)}

\* Array.prototype.slice(0, n) for an integer n: a negative n counts from the end.
Slice0(s, n) ==
    LET end == IF n < 0 THEN Max(Len(s) + n, 0) ELSE Min(n, Len(s))
    IN  SubSeq(s, 1, end)

----------------------------------------------------------------------------
(* embeddingService.js: the lazy model loader and its callers               *)

MaxTextLen == 1

Chars == {" ", "a"}

\* Values a caller may pass as `text`: strings over Chars, and two non-strings.
\* A JavaScript value [t, s]: t = "string" with characters s, or another type.
Str(s) == [t |-> "string", s |-> s]
Strings == {Str(s) : s \in UNION {[1..n -> Chars] : n \in 0..MaxTextLen}}
NonStrings == {[t |-> "null", s |-> <<>>], [t |-> "number", s |-> <<>>]}
TextInputs == Strings \cup NonStrings
Undefined == [t |-> "undefined", s |-> <<>>]

IsString(v) == v.t = "string"

\* String.prototype.trim
RECURSIVE TrimLeft(_)
TrimLeft(s) == IF s # <<>> /\ Head(s) = " " THEN TrimLeft(Tail(s)) ELSE s
RECURSIVE TrimRight(_)
TrimRight(s) ==
    IF s # <<>> /\ s[Len(s)] = " " THEN TrimRight(SubSeq(s, 1, Len(s) - 1)) ELSE s
Trim(s) == TrimRight(TrimLeft(s))

\* A check of the text that leaves out the trimming.
TextRejected_NoTrim(t) == ~IsString(t) \/ t.s = <<>>
\* generateEmbedding lines 59-68: the two checks that throw before any model call
TextRejected(t) ==
    \/ ~IsString(t)            \* typeof text !== 'string'
    \/ t.s = <<>>              \* !text
    \/ Trim(t.s) = <<>>        \* cleanedText.length === 0

LoadsInFlight == {c \in Callers : pc[c] = "loading"}

\* A loader whose wait branch is never taken (the flag is not consulted).
IsLoadInProgress_NoGuard == FALSE
\* initializeModel line 22: if (isInitializing)
IsLoadInProgress == isInitializing

\* A loader that never finds the model cached.
IsCached_Never == FALSE
\* initializeModel line 18: if (embedder)
IsCached == embedder # "null"

\* initializeModel line 27: return embedder (after the wait loop)
WaitLoopExit(c) ==
    /\ model' = [model EXCEPT ![c] = embedder]
    /\ pc' = [pc EXCEPT ![c] = "initReturned"]
    /\ UNCHANGED outcome

\* initializeModel lines 17-39, up to its first await
InitializeModelEntry(c) ==
    IF IsCached
    THEN \* line 18: return embedder
         /\ model' = [model EXCEPT ![c] = embedder]
         /\ pc' = [pc EXCEPT ![c] = "initReturned"]
         /\ UNCHANGED <<embedder, isInitializing, waited, loads>>
    ELSE IF IsLoadInProgress
    THEN \* lines 24-26: enter the wait loop
         /\ pc' = [pc EXCEPT ![c] = "polling"]
         /\ waited' = [waited EXCEPT ![c] = TRUE]
         /\ UNCHANGED <<embedder, isInitializing, model, loads>>
    ELSE \* lines 31-35: isInitializing = true; await pipeline(...)
         /\ isInitializing' = TRUE
         /\ pc' = [pc EXCEPT ![c] = "loading"]
         /\ loads' = [loads EXCEPT ![c] = @ + 1]
         /\ UNCHANGED <<embedder, model, waited>>

\* generateEmbedding lines 57-71
CallGenerateEmbedding(c) ==
    /\ pc[c] = "idle"
    /\ \E t \in TextInputs :
        /\ kind' = [kind EXCEPT ![c] = "generateEmbedding"]
        /\ text' = [text EXCEPT ![c] = t]
        /\ IF TextRejected(t)
           THEN /\ pc' = [pc EXCEPT ![c] = "done"]
                /\ outcome' = [outcome EXCEPT ![c] = "error_text"]
                /\ UNCHANGED <<embedder, isInitializing, model, waited, loads>>
           ELSE /\ InitializeModelEntry(c)
                /\ UNCHANGED outcome
    /\ UNCHANGED <<inferences, aggVars, searchVars, pureVars, restVars>>

\* preloadModel lines 151-154
CallPreloadModel(c) ==
    /\ pc[c] = "idle"
    /\ kind' = [kind EXCEPT ![c] = "preloadModel"]
    /\ InitializeModelEntry(c)
    /\ UNCHANGED <<outcome, text, inferences, aggVars, searchVars, pureVars, restVars>>

\* initializeModel lines 35-43: pipeline(...) resolved
PipelineResolves(c) ==
    /\ pc[c] = "loading"
    /\ embedder' = "model"
    /\ isInitializing' = FALSE
    /\ model' = [model EXCEPT ![c] = "model"]
    /\ pc' = [pc EXCEPT ![c] = "initReturned"]
    /\ UNCHANGED <<kind, outcome, waited, text, loads, inferences, aggVars, searchVars, pureVars, restVars>>

\* A loader that answers a failed load with another load.
PipelineRejects_Retry(c) ==
    /\ pc[c] = "loading"
    /\ loads[c] < 2
    /\ loads' = [loads EXCEPT ![c] = @ + 1]
    /\ UNCHANGED <<embedder, isInitializing, pc, kind, model, outcome, waited, text,
                   inferences, aggVars, searchVars, pureVars, restVars>>
\* initializeModel lines 44-48: pipeline(...) rejected; the error reaches
\* generateEmbedding's catch (rethrown) or preloadModel's catch (logged)
PipelineRejects(c) ==
    /\ pc[c] = "loading"
    /\ isInitializing' = FALSE
    /\ pc' = [pc EXCEPT ![c] = "done"]
    /\ outcome' = [outcome EXCEPT ![c] =
            IF kind[c] = "preloadModel" THEN "void" ELSE "error_load"]
    /\ UNCHANGED <<embedder, kind, model, waited, text, loads, inferences, aggVars, searchVars, pureVars, restVars>>

\* initializeModel lines 24-27: the 100 ms timer of the wait loop fires
TimerFires(c) ==
    /\ pc[c] = "polling"
    /\ IF isInitializing
       THEN UNCHANGED <<pc, model, outcome>>
       ELSE WaitLoopExit(c)
    /\ UNCHANGED <<embedder, isInitializing, kind, waited, text, loads, inferences, aggVars, searchVars, pureVars, restVars>>

\* generateEmbedding lines 71-77 / preloadModel line 155: initializeModel returned
AfterInitialize(c) ==
    /\ pc[c] = "initReturned"
    /\ IF kind[c] = "preloadModel"
       THEN /\ pc' = [pc EXCEPT ![c] = "done"]
            /\ outcome' = [outcome EXCEPT ![c] = "void"]
            /\ UNCHANGED inferences
       ELSE IF model[c] = "null"
       THEN \* model(cleanedText, ...) with model === null: TypeError, rethrown
            /\ pc' = [pc EXCEPT ![c] = "done"]
            /\ outcome' = [outcome EXCEPT ![c] = "error_type"]
            /\ UNCHANGED inferences
       ELSE \* line 74: await model(cleanedText, ...)
            /\ pc' = [pc EXCEPT ![c] = "inferring"]
            /\ inferences' = [inferences EXCEPT ![c] = @ + 1]
            /\ UNCHANGED outcome
    /\ UNCHANGED <<embedder, isInitializing, kind, model, waited, text, loads, aggVars, searchVars, pureVars, restVars>>

\* generateEmbedding lines 74-94: inference resolved
InferenceResolves(c) ==
    /\ pc[c] = "inferring"
    /\ pc' = [pc EXCEPT ![c] = "done"]
    /\ outcome' = [outcome EXCEPT ![c] = "embedding"]
    /\ UNCHANGED <<embedder, isInitializing, kind, model, waited, text, loads, inferences, aggVars, searchVars, pureVars, restVars>>

\* generateEmbedding lines 96-99: inference rejected
InferenceRejects(c) ==
    /\ pc[c] = "inferring"
    /\ pc' = [pc EXCEPT ![c] = "done"]
    /\ outcome' = [outcome EXCEPT ![c] = "error_inference"]
    /\ UNCHANGED <<embedder, isInitializing, kind, model, waited, text, loads, inferences, aggVars, searchVars, pureVars, restVars>>

\* The caller has its result; it may call again.
CallerReturns(c) ==
    /\ pc[c] = "done"
    /\ pc' = [pc EXCEPT ![c] = "idle"]
    /\ kind' = [kind EXCEPT ![c] = "none"]
    /\ model' = [model EXCEPT ![c] = "unset"]
    /\ outcome' = [outcome EXCEPT ![c] = "none"]
    /\ waited' = [waited EXCEPT ![c] = FALSE]
    /\ text' = [text EXCEPT ![c] = Undefined]
    /\ loads' = [loads EXCEPT ![c] = 0]
    /\ inferences' = [inferences EXCEPT ![c] = 0]
    /\ UNCHANGED <<embedder, isInitializing, aggVars, searchVars, pureVars, restVars>>

LoaderInit ==
    /\ embedder = "null"
    /\ isInitializing = FALSE
    /\ pc = [c \in Callers |-> "idle"]
    /\ kind = [c \in Callers |-> "none"]
    /\ model = [c \in Callers |-> "unset"]
    /\ outcome = [c \in Callers |-> "none"]
    /\ waited = [c \in Callers |-> FALSE]
    /\ text = [c \in Callers |-> Undefined]
    /\ loads = [c \in Callers |-> 0]
    /\ inferences = [c \in Callers |-> 0]


----------------------------------------------------------------------------
(* externalSourcesService.js: the two adapters                              *)

MaxInternal == 3
MaxSO == 4
MaxYT == 4
TopN == 10

\* Sequences over S of length at most n
SeqsUpTo(S, n) == UNION {[1..k -> S] : k \in 0..n}

\* Items of a Stack Exchange response, as far as calculateStackOverflowRelevance
\* reads them.  view_count is 10^k - 1, so that log10(view_count + 1) = logViews;
\* recent: (Date.now() - creation_date * 1000) is under 365 days.
SOItems ==
    { [score |-> 10, answer_count |-> 2, is_answered |-> TRUE, accepted |-> TRUE,
       logViews |-> 3, recent |-> FALSE],
      [score |-> 0, answer_count |-> 0, is_answered |-> FALSE, accepted |-> FALSE,
       logViews |-> 1, recent |-> TRUE] }

\* calculateStackOverflowRelevance, lines 93-120 (in points)
CalculateStackOverflowRelevance(item) ==
      item.score * 5
    + item.answer_count * 10
    + (IF item.is_answered THEN 20 ELSE 0)
    + (IF item.accepted THEN 30 ELSE 0)
    + item.logViews * 5
    + (IF item.recent THEN 10 ELSE 0)

\* What the HTTP call of an adapter can come to.  kind "ok": a 2xx response whose
\* body has an items array; "noData"/"noItems": a 2xx response without body or
\* without items; "badItems": items is not a list of well-formed objects;
\* the others: axios rejects (timeout, network error, HTTP status).
HttpFailures == {"noData", "noItems", "badItems", "timeout", "network",
                 "status429", "status403", "status500"}
HttpThrows == HttpFailures \ {"noData", "noItems"}

SOResponses ==
    {[kind |-> "ok", items |-> l] : l \in SeqsUpTo(SOItems, MaxSO)}
    \cup {[kind |-> k, items |-> <<>>] : k \in HttpFailures}
YTResponses ==
    {[kind |-> "ok", items |-> l] : l \in SeqsUpTo({"video"}, MaxYT)}
    \cup {[kind |-> k, items |-> <<>>] : k \in HttpFailures}

\* !query || typeof query !== 'string' (lines 23, 130, 204)
QueryRejected(q) == ~IsString(q) \/ q.s = <<>>

\* Array.prototype.sort with the comparator (a, b) => b.key - a.key, for numeric
\* keys: descending, and stable (equal keys keep their input order; Node 20).
\* keys[i] is the key of the i-th element; the result lists the indices in order.
RECURSIVE InsertDesc(_, _, _)
InsertDesc(sorted, j, keys) ==
    IF sorted = <<>> THEN <<j>>
    ELSE IF keys[Head(sorted)] < keys[j] THEN <<j>> \o sorted
    ELSE <<Head(sorted)>> \o InsertDesc(Tail(sorted), j, keys)
RECURSIVE SortDescFrom(_, _, _)
SortDescFrom(acc, j, keys) ==
    IF j > Len(keys) THEN acc
    ELSE SortDescFrom(InsertDesc(acc, j, keys), j + 1, keys)
SortDescOrder(keys) == SortDescFrom(<<>>, 1, keys)
SortDescBy(s, keys) ==
    LET order == SortDescOrder(keys) IN [i \in 1..Len(s) |-> s[order[i]]]

\* searchStackOverflow lines 22-75: the try block.  threw: control reached catch.
SearchStackOverflowTry(q, http) ==
    IF QueryRejected(q) THEN [threw |-> TRUE, value |-> <<>>]
    ELSE IF http.kind \in HttpThrows THEN [threw |-> TRUE, value |-> <<>>]
    ELSE IF http.kind \in {"noData", "noItems"} THEN [threw |-> FALSE, value |-> <<>>]
    ELSE [threw |-> FALSE,
          value |->
              LET results == [i \in 1..Len(http.items) |->
                      [source |-> "stackoverflow", id |-> i,
                       relevance_score |-> CalculateStackOverflowRelevance(http.items[i])]]
              IN  SortDescBy(results, [i \in 1..Len(results) |-> results[i].relevance_score])]

\* An adapter whose catch block lets the error go on to the caller.
SearchStackOverflow_Rethrow(q, http) ==
    LET r == SearchStackOverflowTry(q, http)
    IN  [st |-> IF r.threw THEN "rejected" ELSE "fulfilled", value |-> r.value]
\* searchStackOverflow lines 21-87: the promise the async function settles to
SearchStackOverflow(q, http) ==
    LET r == SearchStackOverflowTry(q, http)
    IN  [st |-> "fulfilled", value |-> IF r.threw THEN <<>> ELSE r.value]

\* searchYouTube lines 129-174: the try block with an API key configured
SearchYouTubeTry(q, http) ==
    IF QueryRejected(q) THEN [threw |-> TRUE, value |-> <<>>]
    ELSE IF http.kind \in HttpThrows THEN [threw |-> TRUE, value |-> <<>>]
    ELSE IF http.kind \in {"noData", "noItems"} THEN [threw |-> FALSE, value |-> <<>>]
    ELSE [threw |-> FALSE,
          value |-> [i \in 1..Len(http.items) |-> [source |-> "youtube", id |-> i]]]

\* searchYouTube lines 128-186
SearchYouTube(q, http) ==
    LET r == SearchYouTubeTry(q, http)
    IN  [st |-> "fulfilled", value |-> IF r.threw THEN <<>> ELSE r.value]

\* searchYouTube lines 130-137: what happens before the HTTP call.
\* "list": the call is over (invalid query caught, or no API key); "http": axios.get
YouTubeBeforeHttp(q) ==
    IF QueryRejected(q) THEN "list"
    ELSE IF ~youtubeKey THEN "list"
    ELSE "http"

NoAdapterCall == [adapter |-> "none", query |-> Undefined, http |-> "none",
                  result |-> [st |-> "none", value |-> <<>>]]

\* A direct call of searchStackOverflow, from its start to its settling
CallSearchStackOverflow ==
    \E q \in TextInputs, http \in SOResponses :
        /\ adapterCall' = [adapter |-> "stackoverflow", query |-> q, http |-> http.kind,
                           result |-> SearchStackOverflow(q, http)]
        /\ UNCHANGED <<youtubeKey, saPc, saQuery, saCall, saCaught, saResult, loaderVars, searchVars, pureVars, restVars>>

\* A direct call of searchYouTube, from its start to its settling
CallSearchYouTube ==
    \E q \in TextInputs, http \in YTResponses :
        /\ adapterCall' =
             [adapter |-> "youtube", query |-> q,
              http |-> IF YouTubeBeforeHttp(q) = "http" THEN http.kind ELSE "none",
              result |-> IF YouTubeBeforeHttp(q) = "http"
                         THEN SearchYouTube(q, http)
                         ELSE [st |-> "fulfilled", value |-> <<>>]]
        /\ UNCHANGED <<youtubeKey, saPc, saQuery, saCall, saCaught, saResult, loaderVars, searchVars, pureVars, restVars>>


----------------------------------------------------------------------------
(* externalSourcesService.js: searchAllSources and combineAndRankResults    *)

Sources == {"internal", "stackoverflow", "youtube"}

\* Queries handed to searchAllSources
SaQueries == {q \in TextInputs : Len(q.s) <= 1}

\* Hits the internal search function may resolve to: similarity in thousandths,
\* relevance_score in points (semanticSearch sets it to round(similarity * 100)).
InternalHitTypes ==
    { [similarity |-> 1000, hasRelevance |-> TRUE, relevance_score |-> 100],
      [similarity |-> 4,    hasRelevance |-> TRUE, relevance_score |-> 0],
      [similarity |-> -900, hasRelevance |-> TRUE, relevance_score |-> -90],
      [similarity |-> 500,  hasRelevance |-> FALSE, relevance_score |-> 0] }

InternalLists ==
    { [i \in 1..Len(l) |->
          [id |-> i, similarity |-> l[i].similarity, hasRelevance |-> l[i].hasRelevance,
           relevance_score |-> l[i].relevance_score]] :
      l \in SeqsUpTo(InternalHitTypes, MaxInternal) }

\* A fused score of internal hits without the bonus.
InternalRankScore_NoBonus(item) ==
    IF item.hasRelevance /\ item.relevance_score # 0
    THEN item.relevance_score * 10
    ELSE item.similarity
\* combineAndRankResults line 273, in tenths of a point:
\* (item.relevance_score || item.similarity * 100) + 100
InternalRankScore(item) ==
    (IF item.hasRelevance /\ item.relevance_score # 0
     THEN item.relevance_score * 10
     ELSE item.similarity) + 1000
\* line 281: item.relevance_score
StackOverflowRankScore(item) == item.relevance_score * 10
\* line 289: 30
YouTubeRankScore(item) == 300

\* combineAndRankResults lines 266-291: the list `all` before it is sorted
AllHits(internal, stackoverflow, youtube) ==
       [i \in 1..Len(internal) |->
           [source |-> "internal_db", id |-> internal[i].id,
            rank_score |-> InternalRankScore(internal[i])]]
    \o [i \in 1..Len(stackoverflow) |->
           [source |-> "stackoverflow", id |-> stackoverflow[i].id,
            rank_score |-> StackOverflowRankScore(stackoverflow[i])]]
    \o [i \in 1..Len(youtube) |->
           [source |-> "youtube", id |-> youtube[i].id,
            rank_score |-> YouTubeRankScore(youtube[i])]]

RankScores(all) == [i \in 1..Len(all) |-> all[i].rank_score]

\* A ranking that cuts the list to ten before it sorts.
CombineAndRankResults_SliceFirst(internal, stackoverflow, youtube) ==
    LET all == Slice0(AllHits(internal, stackoverflow, youtube), TopN)
    IN  SortDescBy(all, RankScores(all))
\* combineAndRankResults lines 265-297
CombineAndRankResults(internal, stackoverflow, youtube) ==
    LET all == AllHits(internal, stackoverflow, youtube)
    IN  Slice0(SortDescBy(all, RankScores(all)), TopN)

Settled(call) == call.st \in {"fulfilled", "rejected"}

\* A join that is over as soon as one of the promises has settled.
JoinReady_First == \E s \in Sources : Settled(saCall[s])
\* Promise.allSettled, line 211: every promise has settled
JoinReady == \A s \in Sources : Settled(saCall[s])

\* lines 218-220: status === 'fulfilled' ? value : []
ValueOrEmpty(call) == IF call.st = "fulfilled" THEN call.value ELSE <<>>

NotStarted == [st |-> "notStarted", value |-> <<>>]
Pending == [st |-> "pending", value |-> <<>>]
NoResult == [status |-> "none"]

\* searchAllSources lines 203-215, up to the await: the query check, then the
\* three calls in the order of the array literal.  internalThrows: the call
\* supabaseSearchFn(query, internalLimit) itself throws instead of returning a
\* promise, which ends the array literal and reaches catch (lines 255-258).
StartSearchAllSources ==
    /\ saPc = "idle"
    /\ \E q \in SaQueries, internalThrows \in BOOLEAN :
        /\ saQuery' = q
        /\ IF QueryRejected(q)
           THEN /\ saPc' = "done"
                /\ saResult' = [status |-> "threw", error |-> "query"]
                /\ UNCHANGED saCall
           ELSE IF internalThrows
           THEN /\ saPc' = "done"
                /\ saResult' = [status |-> "threw", error |-> "internal"]
                /\ saCall' = [saCall EXCEPT !["internal"] = [st |-> "threw", value |-> <<>>]]
           ELSE /\ saPc' = "waiting"
                /\ saCall' = [s \in Sources |->
                      IF s = "youtube" /\ YouTubeBeforeHttp(q) = "list"
                      THEN [st |-> "fulfilled", value |-> <<>>]
                      ELSE Pending]
                /\ UNCHANGED saResult
    /\ UNCHANGED <<youtubeKey, saCaught, adapterCall, loaderVars, searchVars, pureVars, restVars>>

\* The promise of supabaseSearchFn fulfils with a list of hits
InternalFulfils ==
    /\ saCall["internal"].st = "pending"
    /\ \E l \in InternalLists :
        saCall' = [saCall EXCEPT !["internal"] = [st |-> "fulfilled", value |-> l]]
    /\ UNCHANGED <<youtubeKey, saPc, saQuery, saCaught, saResult, adapterCall, loaderVars, searchVars, pureVars, restVars>>

\* The promise of supabaseSearchFn rejects
InternalRejects ==
    /\ saCall["internal"].st = "pending"
    /\ saCall' = [saCall EXCEPT !["internal"] = [st |-> "rejected", value |-> <<>>]]
    /\ UNCHANGED <<youtubeKey, saPc, saQuery, saCaught, saResult, adapterCall, loaderVars, searchVars, pureVars, restVars>>

\* The HTTP call of searchStackOverflow ends and the adapter settles
StackOverflowSettles ==
    /\ saCall["stackoverflow"].st = "pending"
    /\ \E http \in SOResponses :
        /\ saCall' = [saCall EXCEPT !["stackoverflow"] = SearchStackOverflow(saQuery, http)]
        /\ saCaught' = IF SearchStackOverflowTry(saQuery, http).threw
                       THEN saCaught \cup {"stackoverflow"} ELSE saCaught
    /\ UNCHANGED <<youtubeKey, saPc, saQuery, saResult, adapterCall, loaderVars, searchVars, pureVars, restVars>>

\* The HTTP call of searchYouTube ends and the adapter settles
YouTubeSettles ==
    /\ saCall["youtube"].st = "pending"
    /\ \E http \in YTResponses :
        /\ saCall' = [saCall EXCEPT !["youtube"] = SearchYouTube(saQuery, http)]
        /\ saCaught' = IF SearchYouTubeTry(saQuery, http).threw
                       THEN saCaught \cup {"youtube"} ELSE saCaught
    /\ UNCHANGED <<youtubeKey, saPc, saQuery, saResult, adapterCall, loaderVars, searchVars, pureVars, restVars>>

\* lines 227-243: the sources object, a count and a results list per source
SourcesOf(internal, stackoverflow, youtube) ==
    [internal |-> [count |-> Len(internal),
                   results |-> [i \in 1..Len(internal) |->
                       [source |-> "internal_db", id |-> internal[i].id,
                        similarity |-> internal[i].similarity,
                        relevance_score |-> internal[i].relevance_score]]],
     stackoverflow |-> [count |-> Len(stackoverflow), results |-> stackoverflow],
     youtube |-> [count |-> Len(youtube), results |-> youtube]]

\* A combined object whose total counts the fused list instead of the sources.
Combined_TotalOfTop(query, internal, stackoverflow, youtube) ==
    [status |-> "returned",
     query |-> query,
     total_results |-> Len(CombineAndRankResults(internal, stackoverflow, youtube)),
     sources |-> SourcesOf(internal, stackoverflow, youtube),
     top_results |-> CombineAndRankResults(internal, stackoverflow, youtube)]
\* lines 223-246: the object `combined` (the timestamp is left out)
Combined(query, internal, stackoverflow, youtube) ==
    [status |-> "returned",
     query |-> query,
     total_results |-> Len(internal) + Len(stackoverflow) + Len(youtube),
     sources |-> SourcesOf(internal, stackoverflow, youtube),
     top_results |-> CombineAndRankResults(internal, stackoverflow, youtube)]

\* searchAllSources lines 211-253: the await is over; build and return `combined`
SearchAllSourcesReturns ==
    /\ saPc = "waiting"
    /\ JoinReady
    /\ saResult' = Combined(saQuery, ValueOrEmpty(saCall["internal"]),
                            ValueOrEmpty(saCall["stackoverflow"]),
                            ValueOrEmpty(saCall["youtube"]))
    /\ saPc' = "done"
    /\ UNCHANGED <<youtubeKey, saQuery, saCall, saCaught, adapterCall, loaderVars, searchVars, pureVars, restVars>>

\* The caller has the result; the next searchAllSources call may start.
SearchAllSourcesOver ==
    /\ saPc = "done"
    /\ saPc' = "idle"
    /\ saQuery' = Undefined
    /\ saCall' = [s \in Sources |-> NotStarted]
    /\ saCaught' = {}
    /\ saResult' = NoResult
    /\ UNCHANGED <<youtubeKey, adapterCall, loaderVars, searchVars, pureVars, restVars>>

AggInit ==
    /\ youtubeKey \in BOOLEAN
    /\ saPc = "idle"
    /\ saQuery = Undefined
    /\ saCall = [s \in Sources |-> NotStarted]
    /\ saCaught = {}
    /\ saResult = NoResult
    /\ adapterCall = NoAdapterCall


----------------------------------------------------------------------------
(* embeddingService.js: cosineSimilarity                                    *)

Dim == 384

\* Largest r in lo..hi with r * r <= n (Math.sqrt, rounded down)
RECURSIVE ISqrtBetween(_, _, _)
ISqrtBetween(lo, hi, n) ==
    IF lo >= hi THEN lo
    ELSE LET mid == (lo + hi + 1) \div 2
         IN  IF mid * mid <= n THEN ISqrtBetween(mid, hi, n)
             ELSE ISqrtBetween(lo, mid - 1, n)
ISqrt(n) == ISqrtBetween(0, Min(n, 46340), n)

Abs(x) == IF x < 0 THEN -x ELSE x
Sign(x) == IF x < 0 THEN -1 ELSE 1

\* JavaScript numbers are doubles: a result beyond the largest finite value is
\* Infinity, and 0 * Infinity, Infinity - Infinity and every operation on NaN
\* give NaN.  The model's doubles are the integers of -MaxFinite..MaxFinite and
\* the three values Infinity, -Infinity and NaN.
MaxFinite == 400
Infinity == MaxFinite + 1
NaN == MaxFinite + 2
\* A finite number whose square is beyond the finite range (such as 1e200)
Huge == MaxFinite

IsFinite(x) == Abs(x) <= MaxFinite

\* x * y
FMul(x, y) ==
    IF x = NaN \/ y = NaN THEN NaN
    ELSE IF x = 0 \/ y = 0 THEN (IF IsFinite(x) /\ IsFinite(y) THEN 0 ELSE NaN)
    ELSE IF ~IsFinite(x) \/ ~IsFinite(y) THEN Sign(x) * Sign(y) * Infinity
    ELSE IF Abs(y) > MaxFinite \div Abs(x) THEN Sign(x) * Sign(y) * Infinity
    ELSE x * y

\* x + y
FAdd(x, y) ==
    IF x = NaN \/ y = NaN THEN NaN
    ELSE IF ~IsFinite(x) /\ ~IsFinite(y) THEN (IF x = y THEN x ELSE NaN)
    ELSE IF ~IsFinite(x) THEN x
    ELSE IF ~IsFinite(y) THEN y
    ELSE IF ~IsFinite(x + y) THEN Sign(x + y) * Infinity
    ELSE x + y

\* The loop of lines 117-121 for one accumulator: acc += a[i] * b[i] for i from
\* lo to hi, in this order
RECURSIVE SumProducts(_, _, _, _, _)
SumProducts(acc, a, b, lo, hi) ==
    IF lo > hi THEN acc
    ELSE IF lo = hi THEN FAdd(acc, FMul(a[lo], b[lo]))
    ELSE LET mid == (lo + hi) \div 2
             left == SumProducts(acc, a, b, lo, mid)
         IN  IF left = NaN THEN NaN ELSE SumProducts(left, a, b, mid + 1, hi)
DotProduct(a, b) == SumProducts(0, a, b, 1, Len(a))

\* What cosineSimilarity did: threw, or returned `value` (in thousandths, cut
\* towards zero), or returned NaN
Threw == [threw |-> TRUE, value |-> 0, nan |-> FALSE]
Returned0(v) == [threw |-> FALSE, value |-> v, nan |-> FALSE]
ReturnedNaN == [threw |-> FALSE, value |-> 0, nan |-> TRUE]

\* A check that lets a longer second vector pass.
Mismatch_FirstLonger(vec1, vec2) ==
    vec1.t # "array" \/ vec2.t # "array" \/ Len(vec1.a) > Len(vec2.a)
\* line 109: !vec1 || !vec2 || vec1.length !== vec2.length.  v is a JavaScript
\* value [t, a]: t = "array" with components a, or a missing value.
Mismatch(vec1, vec2) ==
    vec1.t # "array" \/ vec2.t # "array" \/ Len(vec1.a) # Len(vec2.a)

\* A magnitude taken from the first vector alone.
Magnitude_FirstOnly(norm1, norm2) ==
    IF IsFinite(norm1) THEN ISqrt(norm1 * norm1 * 10000) ELSE norm1
\* Math.sqrt(norm1) * Math.sqrt(norm2), line 123, in hundredths when it is finite
Magnitude(norm1, norm2) ==
    IF norm1 = NaN \/ norm2 = NaN THEN NaN
    ELSE IF ~IsFinite(norm1) \/ ~IsFinite(norm2)
    THEN (IF norm1 = 0 \/ norm2 = 0 THEN NaN ELSE Infinity)
    ELSE ISqrt(norm1 * norm2 * 10000)

\* cosineSimilarity lines 108-130
CosineSimilarity(vec1, vec2) ==
    IF Mismatch(vec1, vec2) THEN Threw
    ELSE LET dotProduct == DotProduct(vec1.a, vec2.a)
             norm1 == DotProduct(vec1.a, vec1.a)
             norm2 == DotProduct(vec2.a, vec2.a)
             magnitude == Magnitude(norm1, norm2)
         IN  IF magnitude = 0 THEN Returned0(0)
             \* dotProduct / magnitude
             ELSE IF magnitude = NaN \/ dotProduct = NaN THEN ReturnedNaN
             ELSE IF magnitude = Infinity
             THEN (IF IsFinite(dotProduct) THEN Returned0(0) ELSE ReturnedNaN)
             ELSE IF ~IsFinite(dotProduct) THEN ReturnedNaN
             ELSE Returned0(Sign(dotProduct) * ((Abs(dotProduct) * 100000) \div magnitude))

\* Vectors handed to cosineSimilarity
MaxVecLen == 2
Components == {-1, 0, 2, Huge}
MissingVectors == {[t |-> "null", a |-> <<>>, s |-> <<>>],
                   [t |-> "undefined", a |-> <<>>, s |-> <<>>]}
CosineInputs ==
    {[t |-> "array", a |-> a, s |-> <<>>] : a \in SeqsUpTo(Components, MaxVecLen)}
    \cup MissingVectors

NoCosineCall == [called |-> FALSE, vec1 |-> [t |-> "null", a |-> <<>>, s |-> <<>>],
                 vec2 |-> [t |-> "null", a |-> <<>>, s |-> <<>>],
                 result |-> Returned0(0), swapped |-> Returned0(0)]

\* cosineSimilarity(vec1, vec2) and cosineSimilarity(vec2, vec1), lines 108-130
CallCosineSimilarity ==
    /\ ~csCall.called
    /\ \E vec1 \in CosineInputs, vec2 \in CosineInputs :
        csCall' = [called |-> TRUE, vec1 |-> vec1, vec2 |-> vec2,
                   result |-> CosineSimilarity(vec1, vec2),
                   swapped |-> CosineSimilarity(vec2, vec1)]
    /\ UNCHANGED <<geCall, loaderVars, aggVars, searchVars, restVars>>

\* The caller has the result; the next call may start.
CosineOver ==
    /\ csCall.called
    /\ csCall' = NoCosineCall
    /\ UNCHANGED <<geCall, loaderVars, aggVars, searchVars, restVars>>

----------------------------------------------------------------------------
(* embeddingService.js: generateEmbedding, one call with its data           *)

MaxOutLen == 4

\* new Array(n).fill(0)
Zeros(n) == [i \in 1..n |-> 0]

\* Values of the `dimensions` argument; Dim is its default
Dimensions == (0..(MaxOutLen - 1)) \cup {Dim}

\* Array.from(output.data), line 80: short outputs, and outputs of one component
\* less than, exactly, and one more than the 384 of the model
ModelOutputs ==
    SeqsUpTo({1, 2}, MaxOutLen)
    \cup {<<2>> \o [i \in 1..n |-> 1] : n \in {Dim - 2, Dim - 1, Dim}}

\* An adjustment that only ever pads.
FitDimensions_PadOnly(embedding, dimensions) ==
    IF Len(embedding) < dimensions
    THEN embedding \o Zeros(dimensions - Len(embedding))
    ELSE embedding
\* generateEmbedding lines 83-92
FitDimensions(embedding, dimensions) ==
    IF Len(embedding) # dimensions
    THEN IF Len(embedding) < dimensions
         THEN embedding \o Zeros(dimensions - Len(embedding))
         ELSE Slice0(embedding, dimensions)
    ELSE embedding

NoEncodeCall == [pc |-> "idle", text |-> Undefined, dimensions |-> Dim,
                 inferred |-> FALSE, output |-> <<>>, status |-> "none", result |-> <<>>]

\* generateEmbedding lines 57-71: the checks of the text, then await initializeModel()
EncodeStart ==
    /\ geCall.pc = "idle"
    /\ \E t \in TextInputs, d \in Dimensions :
        geCall' = IF TextRejected(t)
                  THEN [NoEncodeCall EXCEPT !.pc = "done", !.text = t, !.dimensions = d,
                                            !.status = "error_text"]
                  ELSE [NoEncodeCall EXCEPT !.pc = "loading", !.text = t, !.dimensions = d]
    /\ UNCHANGED <<csCall, loaderVars, aggVars, searchVars, restVars>>

\* lines 71-77: initializeModel() returned the model; await model(cleanedText, ...)
EncodeModelReady ==
    /\ geCall.pc = "loading"
    /\ geCall' = [geCall EXCEPT !.pc = "inferring"]
    /\ UNCHANGED <<csCall, loaderVars, aggVars, searchVars, restVars>>

\* lines 71 and 96-99: initializeModel() rejected
EncodeModelFails ==
    /\ geCall.pc = "loading"
    /\ geCall' = [geCall EXCEPT !.pc = "done", !.status = "error_load"]
    /\ UNCHANGED <<csCall, loaderVars, aggVars, searchVars, restVars>>

\* lines 74-94: the inference resolved with an output of some length
EncodeInferenceResolves ==
    /\ geCall.pc = "inferring"
    /\ \E output \in ModelOutputs :
        geCall' = [geCall EXCEPT !.pc = "done", !.inferred = TRUE, !.output = output,
                                 !.status = "embedding",
                                 !.result = FitDimensions(output, geCall.dimensions)]
    /\ UNCHANGED <<csCall, loaderVars, aggVars, searchVars, restVars>>

\* lines 74-77 and 96-99: the inference rejected
EncodeInferenceRejects ==
    /\ geCall.pc = "inferring"
    /\ geCall' = [geCall EXCEPT !.pc = "done", !.status = "error_inference"]
    /\ UNCHANGED <<csCall, loaderVars, aggVars, searchVars, restVars>>

\* The caller has the result; the next call may start.
EncodeOver ==
    /\ geCall.pc = "done"
    /\ geCall' = NoEncodeCall
    /\ UNCHANGED <<csCall, loaderVars, aggVars, searchVars, restVars>>

PureInit ==
    /\ csCall = NoCosineCall
    /\ geCall = NoEncodeCall

----------------------------------------------------------------------------
(* supabaseService.js: semanticSearch                                       *)

MaxProblems == 3

ProblemIds == 1..MaxProblems

\* dbVector.concat(new Array(384 - dbVector.length).fill(0)) / dbVector.slice(0, 384)
\* lines 134-138
FitTo384(a) == IF Len(a) < Dim THEN a \o Zeros(Dim - Len(a)) ELSE Slice0(a, Dim)

Array(a) == [t |-> "array", a |-> a, s |-> <<>>]
Text(s) == [t |-> "string", a |-> <<>>, s |-> s]
Null == [t |-> "null", a |-> <<>>, s |-> <<>>]
Number == [t |-> "number", a |-> <<>>, s |-> <<>>]

\* Tokens of a JSON text
LB == [k |-> "[", v |-> 0]
RB == [k |-> "]", v |-> 0]
Comma == [k |-> ",", v |-> 0]
Num(n) == [k |-> "num", v |-> n]

\* The elements of "n , n , ... n" or the empty sequence; ok = FALSE: syntax error
RECURSIVE ParseElements(_)
ParseElements(toks) ==
    IF Len(toks) = 1 /\ toks[1].k = "num" THEN [ok |-> TRUE, a |-> <<toks[1].v>>]
    ELSE IF Len(toks) >= 3 /\ toks[1].k = "num" /\ toks[2].k = ","
    THEN LET rest == ParseElements(SubSeq(toks, 3, Len(toks)))
         IN  [ok |-> rest.ok, a |-> <<toks[1].v>> \o rest.a]
    ELSE [ok |-> FALSE, a |-> <<>>]

\* JSON.parse of a text for arrays of numbers and for single numbers.
\* threw: SyntaxError
JsonParse(toks) ==
    IF Len(toks) = 1 /\ toks[1].k = "num" THEN [threw |-> FALSE, value |-> Number]
    ELSE IF Len(toks) = 2 /\ toks[1].k = "[" /\ toks[2].k = "]"
    THEN [threw |-> FALSE, value |-> Array(<<>>)]
    ELSE IF Len(toks) >= 3 /\ toks[1].k = "[" /\ toks[Len(toks)].k = "]"
    THEN LET e == ParseElements(SubSeq(toks, 2, Len(toks) - 1))
         IN  IF e.ok THEN [threw |-> FALSE, value |-> Array(e.a)]
             ELSE [threw |-> TRUE, value |-> Null]
    ELSE [threw |-> TRUE, value |-> Null]

\* dbVector.replace(/^\[/, '[').replace(/\]$/, ']'), line 120
ReplaceBrackets(toks) ==
    LET a == IF toks # <<>> /\ Head(toks).k = "[" THEN <<LB>> \o Tail(toks) ELSE toks
    IN  IF a # <<>> /\ a[Len(a)].k = "]" THEN SubSeq(a, 1, Len(a) - 1) \o <<RB>> ELSE a

\* A callback that scores a value that is no array as the empty array.
ScoreRow_NonArrayAsEmpty(row, queryEmbedding) ==
    LET parsed == IF row.vector.t = "string"
                  THEN JsonParse(ReplaceBrackets(row.vector.s))
                  ELSE [threw |-> FALSE, value |-> row.vector]
        dbVector == IF Len(parsed.value.a) # Len(queryEmbedding)
                    THEN FitTo384(parsed.value.a)
                    ELSE parsed.value.a
        sim == CosineSimilarity(Array(queryEmbedding), Array(dbVector))
    IN  [usable |-> ~sim.threw, problem_id |-> row.problem_id, similarity |-> sim.value]
\* The callback of embeddings.map, lines 112-149, for one row: usable = FALSE is
\* the `return null` of lines 128 and 147.
ScoreRow(row, queryEmbedding) ==
    LET parsed == IF row.vector.t = "string"
                  THEN JsonParse(ReplaceBrackets(row.vector.s))
                  ELSE [threw |-> FALSE, value |-> row.vector]
    IN  IF parsed.threw \/ parsed.value.t # "array"
        THEN [usable |-> FALSE, problem_id |-> row.problem_id, similarity |-> 0]
        ELSE LET dbVector == IF Len(parsed.value.a) # Len(queryEmbedding)
                             THEN FitTo384(parsed.value.a)
                             ELSE parsed.value.a
                 sim == CosineSimilarity(Array(queryEmbedding), Array(dbVector))
             IN  [usable |-> ~sim.threw, problem_id |-> row.problem_id,
                  similarity |-> sim.value]


\* Values of the vector column, by name
StoredNames == {"e1", "e3", "t2", "bad", "null", "num"}
StoredValue(name) ==
    CASE name = "e1"   -> Array(<<1>> \o Zeros(Dim - 1))   \* native array of 384
      [] name = "e3"   -> Array(<<9, 1>>)                   \* JSON array, too short
      [] name = "t2"   -> Text(<<LB, Num(0), Comma, Num(1), RB>>)      \* "[0,1]"
      [] name = "bad"  -> Text(<<LB, Num(0), Comma>>)                  \* "[0,"
      [] name = "null" -> Null
      [] name = "num"  -> Text(<<Num(5)>>)                             \* "5"

\* Embeddings the encoder returns for a query (generateEmbedding: 384 numbers)
QueryNames == {"q1", "q2"}
QueryVector(name) ==
    CASE name = "q1" -> <<1>> \o Zeros(Dim - 1)
      [] name = "q2" -> <<3, 4>> \o Zeros(Dim - 2)

Limits == (-1)..MaxProblems
Thresholds == {0, 500, 1000}
SsQueries == SaQueries

\* All orders in which a query without ORDER BY may return the rows with ids S
Orders(S) ==
    {o \in [1..Cardinality(S) -> S] : \A i, j \in 1..Cardinality(S) : i # j => o[i] # o[j]}

\* Array.prototype.filter
RECURSIVE SelectSeqBy(_, _)
SelectSeqBy(s, keep) ==
    IF s = <<>> THEN <<>>
    ELSE (IF keep[1] THEN <<Head(s)>> ELSE <<>>)
         \o SelectSeqBy(Tail(s), Tail(keep))

\* ScoreRow for every stored value and query embedding of the model, evaluated
\* once: what the callback of embeddings.map returns for such a row.
RowScore ==
    [n \in StoredNames |-> [q \in QueryNames |->
        ScoreRow([problem_id |-> 0, vector |-> StoredValue(n)], QueryVector(q))]]

\* lines 112-149: map and .filter(s => s !== null).  embeddings[i] is a row
\* [problem_id, vector] with the vector given by name.
Similarities(embeddings, queryEmbedding) ==
    LET scored == [i \in 1..Len(embeddings) |->
                     [RowScore[embeddings[i].vector][queryEmbedding]
                         EXCEPT !.problem_id = embeddings[i].problem_id]]
    IN  SelectSeqBy(scored, [i \in 1..Len(scored) |-> scored[i].usable])

SimilarityKeys(s) == [i \in 1..Len(s) |-> s[i].similarity]

\* A ranking whose floor is exclusive (similarity > threshold).
TopMatches_StrictFloor(similarities, threshold, limit) ==
    LET passed == SelectSeqBy(similarities,
                    [i \in 1..Len(similarities) |-> similarities[i].similarity > threshold])
    IN  Slice0(SortDescBy(passed, SimilarityKeys(passed)), limit)
\* A ranking that cuts to the limit before it sorts.
TopMatches_SliceFirst(similarities, threshold, limit) ==
    LET passed == Slice0(SelectSeqBy(similarities,
                    [i \in 1..Len(similarities) |-> similarities[i].similarity >= threshold]),
                    limit)
    IN  SortDescBy(passed, SimilarityKeys(passed))
\* lines 152-155: filter, sort, slice
TopMatches(similarities, threshold, limit) ==
    LET passed == SelectSeqBy(similarities,
                    [i \in 1..Len(similarities) |-> similarities[i].similarity >= threshold])
    IN  Slice0(SortDescBy(passed, SimilarityKeys(passed)), limit)

\* topMatches.find(m => m.problem_id === problem.id), line 188
FindMatch(topMatches, id) ==
    topMatches[CHOOSE i \in 1..Len(topMatches) :
                  /\ topMatches[i].problem_id = id
                  /\ \A j \in 1..(i - 1) : topMatches[j].problem_id # id]

\* Math.round(x / 10) for an integer x: halves go up
RoundTenth(x) == (x + 5) \div 10

\* lines 187-197: problems.map(...) and the final sort
BuildResults(problems, topMatches) ==
    LET results == [i \in 1..Len(problems) |->
            LET match == FindMatch(topMatches, problems[i])
            IN  [id |-> problems[i], similarity |-> match.similarity,
                 relevance_score |-> RoundTenth(match.similarity)]]
    IN  SortDescBy(results, SimilarityKeys(results))

NoArgs == [query |-> Undefined, limit |-> 0, threshold |-> 0, queryEmbedding |-> "none"]

\* A catch block that answers a failure with an empty list.
SearchFailure_Swallow(what) == [status |-> "returned", error |-> what, results |-> <<>>]
\* semanticSearch lines 202-205: the catch block logs and rethrows; `what` is the
\* step that failed
SearchFailure(what) == [status |-> "threw", error |-> what, results |-> <<>>]

\* A search that takes an empty outcome for a failure.
NothingFound_Throws == [status |-> "threw", error |-> "none", results |-> <<>>]
\* lines 103-106 and 157-160: return []
NothingFound == [status |-> "returned", error |-> "none", results |-> <<>>]

\* Why generateEmbedding(query) can reject: the text is empty after trimming
\* (embeddingService.js lines 66-68), the model load fails (line 71), the
\* inference fails (lines 74-77)
EmbeddingFailures(q) ==
    IF TextRejected(q) THEN {"embedding_text"} ELSE {"embedding_load", "embedding_inference"}

\* semanticSearch lines 82-91: the query check, then await generateEmbedding(query)
StartSemanticSearch ==
    /\ ssPc = "idle"
    /\ \E q \in SsQueries, limit \in Limits, threshold \in Thresholds :
        /\ ssArgs' = [query |-> q, limit |-> limit, threshold |-> threshold,
                      queryEmbedding |-> "none"]
        /\ IF QueryRejected(q)
           THEN /\ ssPc' = "done"
                /\ ssResult' = SearchFailure("query")
           ELSE /\ ssPc' = "embedding"
                /\ UNCHANGED ssResult
    /\ UNCHANGED <<store, ssEmbeddings, ssTopMatches, loaderVars, aggVars, pureVars, restVars>>

\* generateEmbedding resolved (the text is not empty after trimming), lines 91-97:
\* the embeddings query is sent
QueryEmbeddingResolves ==
    /\ ssPc = "embedding"
    /\ ~TextRejected(ssArgs.query)
    /\ \E qv \in QueryNames : ssArgs' = [ssArgs EXCEPT !.queryEmbedding = qv]
    /\ ssPc' = "readingEmbeddings"
    /\ UNCHANGED <<store, ssEmbeddings, ssTopMatches, ssResult, loaderVars, aggVars, pureVars, restVars>>

\* generateEmbedding rejected (empty text, model load or inference): lines 202-205
QueryEmbeddingRejects ==
    /\ ssPc = "embedding"
    /\ ssPc' = "done"
    /\ \E why \in EmbeddingFailures(ssArgs.query) : ssResult' = SearchFailure(why)
    /\ UNCHANGED <<store, ssArgs, ssEmbeddings, ssTopMatches, loaderVars, aggVars, pureVars, restVars>>

\* lines 95-160: the embeddings query answered with rows, in some order
EmbeddingsRead ==
    /\ ssPc = "readingEmbeddings"
    /\ \E order \in Orders({p \in ProblemIds : store[p] # "absent"}) :
        LET embeddings == [i \in 1..Len(order) |->
                              [problem_id |-> order[i], vector |-> store[order[i]]]]
            similarities == Similarities(embeddings, ssArgs.queryEmbedding)
            topMatches == TopMatches(similarities, ssArgs.threshold, ssArgs.limit)
        IN  /\ ssEmbeddings' = order
            /\ IF embeddings = <<>> \/ topMatches = <<>>
               THEN /\ ssPc' = "done"
                    /\ ssResult' = NothingFound
                    /\ ssTopMatches' = <<>>
               ELSE /\ ssPc' = "readingProblems"
                    /\ ssTopMatches' = topMatches
                    /\ UNCHANGED ssResult
    /\ UNCHANGED <<store, ssArgs, loaderVars, aggVars, pureVars, restVars>>

\* lines 99-101 and 182-184: a query answered with an error
QueryFails ==
    /\ ssPc \in {"readingEmbeddings", "readingProblems"}
    /\ ssPc' = "done"
    /\ ssResult' = SearchFailure(ssPc)
    /\ UNCHANGED <<store, ssArgs, ssEmbeddings, ssTopMatches, loaderVars, aggVars, pureVars, restVars>>

\* lines 165-200: the problems query (.in('id', problemIds)) answered, in some order
ProblemsRead ==
    /\ ssPc = "readingProblems"
    /\ \E problems \in Orders({ssTopMatches[i].problem_id : i \in 1..Len(ssTopMatches)}) :
        ssResult' = [status |-> "returned", error |-> "none",
                     results |-> BuildResults(problems, ssTopMatches)]
    /\ ssPc' = "done"
    /\ UNCHANGED <<store, ssArgs, ssEmbeddings, ssTopMatches, loaderVars, aggVars, pureVars, restVars>>

\* The caller has the result; the next search may start.
SemanticSearchOver ==
    /\ ssPc = "done"
    /\ ssPc' = "idle"
    /\ ssArgs' = NoArgs
    /\ ssEmbeddings' = <<>>
    /\ ssTopMatches' = <<>>
    /\ ssResult' = [status |-> "none", error |-> "none", results |-> <<>>]
    /\ UNCHANGED <<store, loaderVars, aggVars, pureVars, restVars>>

SearchInit ==
    /\ store \in [ProblemIds -> StoredNames \cup {"absent"}]
    /\ ssPc = "idle"
    /\ ssArgs = NoArgs
    /\ ssEmbeddings = <<>>
    /\ ssTopMatches = <<>>
    /\ ssResult = [status |-> "none", error |-> "none", results |-> <<>>]

----------------------------------------------------------------------------
(* routes: POST /api/search behind validateSearchParams                     *)

\* Values of a field of the JSON body.  A number carries its value n (a limit
\* in units, a threshold in thousandths); a numeric string such as "0.5"
\* carries the number it spells; a word is a string that spells no number.
JUndefined == [t |-> "undefined", n |-> 0]
JNull == [t |-> "null", n |-> 0]
JNumber(n) == [t |-> "number", n |-> n]
JNumeric(n) == [t |-> "numeric string", n |-> n]
JWord == [t |-> "word", n |-> 0]

BodyQueries == TextInputs \cup {Undefined}
BodyLimits == {JUndefined, JNull, JNumber(0), JNumber(3), JNumber(100), JNumber(101)}
BodyThresholds ==
    {JUndefined, JNull, JWord, JNumeric(500),
     JNumber(-1), JNumber(0), JNumber(100), JNumber(500), JNumber(1000), JNumber(1001)}

\* !v for a body field
Falsy(v) == v.t \in {"undefined", "null"} \/ (v.t = "number" /\ v.n = 0)
\* v || d
OrDefault(v, d) == IF Falsy(v) THEN d ELSE v

\* !v for a text value (a query, a title, a description)
ValueMissing(q) == q.t \in {"undefined", "null"} \/ (q.t = "string" /\ q.s = <<>>)

\* parseInt(v), parseFloat(v): nan = TRUE for NaN
ParseNumber(v) ==
    IF v.t \in {"number", "numeric string"} THEN [nan |-> FALSE, n |-> v.n]
    ELSE [nan |-> TRUE, n |-> 0]

\* validateSearchParams lines 327-336: an error was pushed for the query
QueryError(q) ==
    \/ ValueMissing(q)                          \* !query
    \/ q.t # "string"                           \* typeof query !== 'string'
    \/ Trim(q.s) = <<>>                         \* query.trim().length === 0
    \/ Len(q.s) > 500                           \* query.length > 500
\* lines 339-344
LimitError(limit) ==
    /\ limit # JUndefined
    /\ LET limitNum == ParseNumber(limit)
       IN  limitNum.nan \/ limitNum.n <= 0 \/ limitNum.n > 100
\* lines 347-352
ThresholdError(threshold) ==
    /\ threshold # JUndefined
    /\ LET thresholdNum == ParseNumber(threshold)
       IN  thresholdNum.nan \/ thresholdNum.n < 0 \/ thresholdNum.n > 1000

NoSearchArgs == [query |-> Undefined, limit |-> JUndefined, threshold |-> JUndefined]
IdleRoute ==
    [pc |-> "idle", query |-> Undefined, limit |-> JUndefined, threshold |-> JUndefined,
     called |-> FALSE, args |-> NoSearchArgs, status |-> 0]

\* A POST /api/search request arrives with a JSON body
PostSearch ==
    /\ route.pc = "idle"
    /\ \E q \in BodyQueries, l \in BodyLimits, th \in BodyThresholds :
          route' = [IdleRoute EXCEPT !.pc = "validate", !.query = q, !.limit = l,
                                     !.threshold = th]
    /\ UNCHANGED <<metrics, answered, crudVars, loaderVars, aggVars, searchVars, pureVars>>

\* validateSearchParams: throws ApiError(400, ...), which errorHandler answers
\* with status 400, or calls next()
ValidateSearchParams ==
    /\ route.pc = "validate"
    /\ IF QueryError(route.query) \/ LimitError(route.limit)
            \/ ThresholdError(route.threshold)
       THEN route' = [route EXCEPT !.pc = "answered", !.status = 400]
       ELSE route' = [route EXCEPT !.pc = "handler"]
    /\ UNCHANGED <<metrics, answered, crudVars, loaderVars, aggVars, searchVars, pureVars>>

\* the route handler, lines 123-136, up to its await
SearchRoute ==
    /\ route.pc = "handler"
    /\ IF ValueMissing(route.query)
       THEN route' = [route EXCEPT !.pc = "answered", !.status = 400]
       ELSE route' = [route EXCEPT
                        !.pc = "searching",
                        !.called = TRUE,
                        !.args = [query |-> route.query,
                                  limit |-> OrDefault(route.limit, JNumber(5)),
                                  threshold |-> OrDefault(route.threshold, JNumber(100))]]
    /\ UNCHANGED <<metrics, answered, crudVars, loaderVars, aggVars, searchVars, pureVars>>

\* semanticSearch returned: res.json({success: true, ...}), lines 138-143
SearchRouteResolves ==
    /\ route.pc = "searching"
    /\ route' = [route EXCEPT !.pc = "answered", !.status = 200]
    /\ UNCHANGED <<metrics, answered, crudVars, loaderVars, aggVars, searchVars, pureVars>>

\* semanticSearch threw: asyncHandler hands the error to errorHandler
SearchRouteRejects ==
    /\ route.pc = "searching"
    /\ route' = [route EXCEPT !.pc = "answered", !.status = 500]
    /\ UNCHANGED <<metrics, answered, crudVars, loaderVars, aggVars, searchVars, pureVars>>

RouteOver ==
    /\ route.pc = "answered"
    /\ route' = IdleRoute
    /\ UNCHANGED <<metrics, answered, crudVars, loaderVars, aggVars, searchVars, pureVars>>

----------------------------------------------------------------------------
(* middleware requestLogger and utils/metrics.js recordRequest              *)

MaxRequests == 8

StatusCodes == {200, 400, 500}

\* recordRequest lines 44-57, on metrics.requests
RecordRequest(m, statusCode) ==
    [total   |-> m.total + 1,
     success |-> IF statusCode < 400 THEN m.success + 1 ELSE m.success,
     errors  |-> IF statusCode < 400 THEN m.errors ELSE m.errors + 1]

\* A response under way: r.m the metrics, r.statusCode, r.headersSent.
\* originalSend with a string body: the framework writes the head and the body
OriginalSend(r) == [r EXCEPT !.headersSent = TRUE]

\* res.send as replaced by requestLogger, lines 36-46
WrappedSend(r) ==
    OriginalSend(IF ~r.headersSent
                 THEN [r EXCEPT !.m = RecordRequest(r.m, r.statusCode)]
                 ELSE r)

\* originalJson: the framework's res.json serialises the body and calls
\* this.send(body), which is the replaced res.send (line 39: "json ruft send auf")
OriginalJson(r) == WrappedSend(r)

\* res.json as replaced by requestLogger, lines 21-31
WrappedJson(r) ==
    OriginalJson([r EXCEPT !.m = RecordRequest(r.m, r.statusCode)])

NewResponse(statusCode) ==
    [m |-> metrics, statusCode |-> statusCode, headersSent |-> FALSE]

\* A request is answered with res.status(code).json(body)
AnswerJson ==
    /\ answered < MaxRequests
    /\ \E code \in StatusCodes : metrics' = WrappedJson(NewResponse(code)).m
    /\ answered' = answered + 1
    /\ UNCHANGED <<route, crudVars, loaderVars, aggVars, searchVars, pureVars>>

\* A request is answered with res.send(text) (GET /metrics/prometheus)
AnswerSend ==
    /\ answered < MaxRequests
    /\ metrics' = WrappedSend(NewResponse(200)).m
    /\ answered' = answered + 1
    /\ UNCHANGED <<route, crudVars, loaderVars, aggVars, searchVars, pureVars>>

HttpInit ==
    /\ route = IdleRoute
    /\ metrics = [total |-> 0, success |-> 0, errors |-> 0]
    /\ answered = 0

----------------------------------------------------------------------------
(* supabaseService.js: addProblemWithEmbedding, updateProblem,              *)
(* updateEmbedding, deleteProblem over the tables of supabase_schema.sql    *)

NOps == 2                \* CRUD calls in flight at a time
MaxProblemRows == 2      \* problems rows ever inserted
MaxEmbeddingRows == 3    \* embeddings rows ever inserted

Ops == 1..NOps

TitleInputs == {Undefined, Str(<<" ">>), Str(<<"a">>), Str(<<"b">>)}
DescriptionInputs == {Undefined, Str(<<"d">>)}

\* `${title} ${description}`
TextForEmbedding(title, description) == title \o <<" ">> \o description

\* The vector generateEmbedding resolves with: a function of the cleaned text
\* (embeddingService.js line 64) and of nothing else
EmbeddingOf(t) == [of |-> Trim(t)]
NoVector == [of |-> <<>>]

HasProblem(rows, id) == \E p \in rows : p.id = id
ProblemRow(rows, id) == CHOOSE p \in rows : p.id = id

\* INSERT into problems: CHECK (char_length(title) > 0), the same for description
InsertProblem(rows, id, title, description) ==
    IF title = <<>> \/ description = <<>>
    THEN [error |-> "23514", rows |-> rows]
    ELSE [error |-> "none",
          rows |-> rows \cup {[id |-> id, title |-> title, description |-> description]}]

\* UPDATE problems SET ... WHERE id = ..., then .select().single()
UpdateProblemRow(rows, id, title, description) ==
    IF ~HasProblem(rows, id) THEN [error |-> "PGRST116", rows |-> rows]
    ELSE LET old == ProblemRow(rows, id)
             new == [id |-> id,
                     title |-> IF title.t = "string" THEN title.s ELSE old.title,
                     description |-> IF description.t = "string" THEN description.s
                                     ELSE old.description]
         IN  IF new.title = <<>> \/ new.description = <<>>
             THEN [error |-> "23514", rows |-> rows]
             ELSE [error |-> "none", rows |-> (rows \ {old}) \cup {new}]

\* An embeddings table without the UNIQUE constraint on problem_id.
InsertEmbedding_NoUnique(embs, probs, id, problemId, vector) ==
    IF ~HasProblem(probs, problemId) THEN [error |-> "23503", rows |-> embs]
    ELSE [error |-> "none",
          rows |-> embs \cup {[id |-> id, problem_id |-> problemId, vector |-> vector]}]
\* INSERT into embeddings: problem_id UUID NOT NULL UNIQUE REFERENCES problems(id)
InsertEmbedding(embs, probs, id, problemId, vector) ==
    IF \E e \in embs : e.problem_id = problemId
    THEN [error |-> "23505", rows |-> embs]          \* unique_violation
    ELSE IF ~HasProblem(probs, problemId)
    THEN [error |-> "23503", rows |-> embs]          \* foreign_key_violation
    ELSE [error |-> "none",
          rows |-> embs \cup {[id |-> id, problem_id |-> problemId, vector |-> vector]}]

\* .upsert({problem_id, vector, model_name}) without onConflict: the conflict
\* target is the primary key id, and the row carries none, so id takes its
\* default, a fresh uuid.  INSERT ... ON CONFLICT (id) DO UPDATE
UpsertEmbedding(embs, probs, id, problemId, vector) ==
    IF \E e \in embs : e.id = id
    THEN [error |-> "none",
          rows |-> {e \in embs : e.id # id}
                     \cup {[id |-> id, problem_id |-> problemId, vector |-> vector]}]
    ELSE InsertEmbedding(embs, probs, id, problemId, vector)

\* REFERENCES problems(id) ON DELETE CASCADE
DeleteCascade(embs, problemId) == {e \in embs : e.problem_id # problemId}

\* A call: its locals while it runs, and how it ended.  flag is the
\* embedding_created or embedding_updated of the object it returned.
IdleOp ==
    [op |-> "none", pc |-> "idle", pid |-> 0, read |-> <<>>, vec |-> NoVector,
     status |-> "none", error |-> "none", flag |-> "none"]

\* The call is over: its locals are gone
Over(op) ==
    [IdleOp EXCEPT !.op = op.op, !.pc = "done", !.pid = op.pid, !.error = op.error,
                   !.flag = op.flag]
OpThrew(op, error) == [Over(op) EXCEPT !.status = "threw", !.error = error]
OpReturned(op) == [Over(op) EXCEPT !.status = "returned"]

\* An id no row of the table has (uuid_generate_v4)
FreshId(rows) ==
    IF rows = {} THEN 1
    ELSE 1 + (CHOOSE i \in {r.id : r \in rows} : \A r \in rows : r.id <= i)

\* The store is up throughout: a statement fails only on a constraint.

\* ---- addProblemWithEmbedding

\* lines 17-39: the call, its validation and the insert into problems
AddProblem(o) ==
    /\ ops[o].pc = "idle"
    /\ nextId <= MaxProblemRows
    /\ \E title \in TitleInputs, description \in DescriptionInputs :
          LET call == [IdleOp EXCEPT !.op = "add"]
          IN  IF ValueMissing(title) \/ ValueMissing(description)
              THEN /\ ops' = [ops EXCEPT ![o] = OpThrew(call, "validation")]
                   /\ UNCHANGED <<problemsTable, nextId>>
              ELSE LET r == InsertProblem(problemsTable, nextId, Trim(title.s),
                                          Trim(description.s))
                   IN  IF r.error = "none"
                       THEN /\ problemsTable' = r.rows
                            /\ nextId' = nextId + 1
                            /\ ops' = [ops EXCEPT ![o] =
                                         [call EXCEPT
                                            !.pc = "add-embed", !.pid = nextId,
                                            !.read = TextForEmbedding(title.s,
                                                                      description.s)]]
                       ELSE /\ ops' = [ops EXCEPT ![o] = OpThrew(call, r.error)]
                            /\ UNCHANGED <<problemsTable, nextId>>
    /\ UNCHANGED <<embeddingsTable, httpVars, loaderVars, aggVars, searchVars, pureVars>>

\* lines 43-44: generateEmbedding settles
AddEmbeddingGenerated(o) ==
    /\ ops[o].pc = "add-embed"
    /\ \/ ops' = [ops EXCEPT ![o].pc = "add-store", ![o].read = <<>>,
                             ![o].vec = EmbeddingOf(ops[o].read)]
       \/ ops' = [ops EXCEPT ![o] = OpThrew(@, "embedding")]
    /\ UNCHANGED <<problemsTable, embeddingsTable, nextId, httpVars, loaderVars,
                   aggVars, searchVars, pureVars>>

\* lines 48-67: the insert into embeddings answers, and the call returns
AddEmbeddingInserted(o) ==
    /\ ops[o].pc = "add-store"
    /\ Cardinality(embeddingsTable) < MaxEmbeddingRows
    /\ LET r == InsertEmbedding(embeddingsTable, problemsTable,
                                FreshId(embeddingsTable), ops[o].pid, ops[o].vec)
       IN  /\ embeddingsTable' = r.rows
           /\ ops' = [ops EXCEPT ![o] =
                        OpReturned([@ EXCEPT
                           !.flag = IF r.error = "none" THEN "true" ELSE "false",
                           !.error = r.error])]
    /\ UNCHANGED <<problemsTable, nextId, httpVars, loaderVars, aggVars, searchVars,
                   pureVars>>

\* ---- updateEmbedding, called directly or by updateProblem

\* updateEmbedding is over: updateProblem catches what it throws, lines 452-458
EmbeddingCallThrew(op, error) ==
    IF op.op = "updateProblem"
    THEN OpReturned([op EXCEPT !.flag = "false", !.error = error])
    ELSE OpThrew(op, error)
EmbeddingCallReturned(op) ==
    IF op.op = "updateProblem"
    THEN OpReturned([op EXCEPT !.flag = "true"])
    ELSE OpReturned(op)

\* lines 371-379: the select of title and description
SelectProblem(op) ==
    IF ~HasProblem(problemsTable, op.pid)
    THEN EmbeddingCallThrew(op, "PGRST116")
    ELSE LET problem == ProblemRow(problemsTable, op.pid)
         IN  [op EXCEPT !.pc = "ue-embed",
                        !.read = TextForEmbedding(problem.title, problem.description)]

\* updateEmbedding(problemId) is called and its select answers
UpdateEmbedding(o) ==
    /\ ops[o].pc = "idle"
    /\ \E pid \in 1..MaxProblemRows :
          ops' = [ops EXCEPT ![o] =
                    SelectProblem([IdleOp EXCEPT !.op = "updateEmbedding", !.pid = pid])]
    /\ UNCHANGED <<problemsTable, embeddingsTable, nextId, httpVars, loaderVars,
                   aggVars, searchVars, pureVars>>

\* updateProblem's call of updateEmbedding: its select answers
EmbeddingProblemSelected(o) ==
    /\ ops[o].pc = "ue-select"
    /\ ops' = [ops EXCEPT ![o] = SelectProblem(@)]
    /\ UNCHANGED <<problemsTable, embeddingsTable, nextId, httpVars, loaderVars,
                   aggVars, searchVars, pureVars>>

\* lines 382-383: generateEmbedding settles
EmbeddingRegenerated(o) ==
    /\ ops[o].pc = "ue-embed"
    /\ \/ ops' = [ops EXCEPT ![o].pc = "ue-upsert", ![o].read = <<>>,
                             ![o].vec = EmbeddingOf(ops[o].read)]
       \/ ops' = [ops EXCEPT ![o] = EmbeddingCallThrew(@, "embedding")]
    /\ UNCHANGED <<problemsTable, embeddingsTable, nextId, httpVars, loaderVars,
                   aggVars, searchVars, pureVars>>

\* lines 386-401: the upsert answers
EmbeddingUpserted(o) ==
    /\ ops[o].pc = "ue-upsert"
    /\ Cardinality(embeddingsTable) < MaxEmbeddingRows
    /\ LET r == UpsertEmbedding(embeddingsTable, problemsTable,
                                FreshId(embeddingsTable), ops[o].pid, ops[o].vec)
       IN  /\ embeddingsTable' = r.rows
           /\ ops' = [ops EXCEPT ![o] =
                        IF r.error = "none" THEN EmbeddingCallReturned(@)
                        ELSE EmbeddingCallThrew(@, r.error)]
    /\ UNCHANGED <<problemsTable, nextId, httpVars, loaderVars, aggVars, searchVars,
                   pureVars>>

\* ---- updateProblem

\* lines 419-461: the call, cleanData, the update of problems; updateEmbedding
\* is called when the title or the description was given
UpdateProblem(o) ==
    /\ ops[o].pc = "idle"
    /\ \E pid \in 1..MaxProblemRows, title \in TitleInputs,
          description \in DescriptionInputs, tags \in BOOLEAN, regenerateEmbedding \in BOOLEAN :
          LET call == [IdleOp EXCEPT !.op = "updateProblem", !.pid = pid]
              \* cleanData: a falsy field is left out, the others are trimmed
              cleanTitle == IF ValueMissing(title) THEN Undefined ELSE Str(Trim(title.s))
              cleanDescription == IF ValueMissing(description) THEN Undefined
                                  ELSE Str(Trim(description.s))
          IN  IF ValueMissing(title) /\ ValueMissing(description) /\ ~tags
              THEN /\ ops' = [ops EXCEPT ![o] = OpThrew(call, "validation")]
                   /\ UNCHANGED problemsTable
              ELSE LET r == UpdateProblemRow(problemsTable, pid, cleanTitle,
                                             cleanDescription)
                   IN  /\ problemsTable' = r.rows
                       /\ ops' = [ops EXCEPT ![o] =
                                    IF r.error # "none" THEN OpThrew(call, r.error)
                                    ELSE IF /\ regenerateEmbedding
                                            /\ (~ValueMissing(title)
                                                  \/ ~ValueMissing(description))
                                    THEN [call EXCEPT !.pc = "ue-select"]
                                    ELSE OpReturned(call)]
    /\ UNCHANGED <<embeddingsTable, nextId, httpVars, loaderVars, aggVars, searchVars,
                   pureVars>>

\* ---- deleteProblem

\* lines 339-355: the call and the delete
DeleteProblem(o) ==
    /\ ops[o].pc = "idle"
    /\ \E pid \in 1..MaxProblemRows :
          /\ problemsTable' = {p \in problemsTable : p.id # pid}
          /\ embeddingsTable' = DeleteCascade(embeddingsTable, pid)
          /\ ops' = [ops EXCEPT ![o] =
                       OpReturned([IdleOp EXCEPT !.op = "deleteProblem", !.pid = pid])]
    /\ UNCHANGED <<nextId, httpVars, loaderVars, aggVars, searchVars, pureVars>>

\* The caller is done with the result of its call
OpOver(o) ==
    /\ ops[o].pc = "done"
    /\ ops' = [ops EXCEPT ![o] = IdleOp]
    /\ UNCHANGED <<problemsTable, embeddingsTable, nextId, httpVars, loaderVars,
                   aggVars, searchVars, pureVars>>

CrudInit ==
    /\ problemsTable = {}
    /\ embeddingsTable = {}
    /\ nextId = 1
    /\ ops = [o \in Ops |-> IdleOp]

RestInit == HttpInit /\ CrudInit

----------------------------------------------------------------------------
(* Specifications *)

\* The model loader with NCallers callers
Init == LoaderInit /\ AggInit /\ youtubeKey = TRUE /\ SearchInit /\ PureInit /\ RestInit
            /\ store = [p \in ProblemIds |-> "absent"]
Next ==
    \E c \in Callers :
        \/ CallGenerateEmbedding(c)
        \/ CallPreloadModel(c)
        \/ PipelineResolves(c)
        \/ PipelineRejects(c)
        \/ TimerFires(c)
        \/ AfterInitialize(c)
        \/ InferenceResolves(c)
        \/ InferenceRejects(c)
        \/ CallerReturns(c)
Spec == Init /\ [][Next]_vars

\* Direct calls of the two adapters
AdapterInit == LoaderInit /\ AggInit /\ SearchInit /\ PureInit /\ RestInit
                  /\ store = [p \in ProblemIds |-> "absent"]
AdapterNext == CallSearchStackOverflow \/ CallSearchYouTube
AdapterSpec == AdapterInit /\ [][AdapterNext]_vars

\* The loader under fair scheduling: a timer that is set fires, a promise that
\* is pending settles, a function whose await is over goes on.  Whether and
\* when a caller calls is left open.
LoaderFairness ==
    \A c \in Callers :
        /\ WF_vars(PipelineResolves(c) \/ PipelineRejects(c))
        /\ WF_vars(TimerFires(c))
        /\ WF_vars(AfterInitialize(c))
        /\ WF_vars(InferenceResolves(c) \/ InferenceRejects(c))
        /\ WF_vars(CallerReturns(c))
LiveSpec == Init /\ [][Next]_vars /\ LoaderFairness

\* cosineSimilarity
CosineNext == CallCosineSimilarity \/ CosineOver
CosineInit == AdapterInit /\ youtubeKey = TRUE
CosineSpec == CosineInit /\ [][CosineNext]_vars

\* generateEmbedding, one call at a time
EncodeNext ==
    \/ EncodeStart
    \/ EncodeModelReady
    \/ EncodeModelFails
    \/ EncodeInferenceResolves
    \/ EncodeInferenceRejects
    \/ EncodeOver
EncodeInit == AdapterInit /\ youtubeKey = TRUE
EncodeSpec == EncodeInit /\ [][EncodeNext]_vars

\* searchAllSources
AggNext ==
    \/ StartSearchAllSources
    \/ InternalFulfils
    \/ InternalRejects
    \/ StackOverflowSettles
    \/ YouTubeSettles
    \/ SearchAllSourcesReturns
    \/ SearchAllSourcesOver
AggSpec == AdapterInit /\ [][AggNext]_vars

\* semanticSearch over a store
SearchSpecInit == LoaderInit /\ AggInit /\ youtubeKey = TRUE /\ SearchInit /\ PureInit /\ RestInit
SearchNext ==
    \/ StartSemanticSearch
    \/ QueryEmbeddingResolves
    \/ QueryEmbeddingRejects
    \/ EmbeddingsRead
    \/ QueryFails
    \/ ProblemsRead
    \/ SemanticSearchOver
SearchSpec == SearchSpecInit /\ [][SearchNext]_vars

\* POST /api/search
RouteNext ==
    \/ PostSearch
    \/ ValidateSearchParams
    \/ SearchRoute
    \/ SearchRouteResolves
    \/ SearchRouteRejects
    \/ RouteOver
RouteInit == AdapterInit /\ youtubeKey = TRUE
RouteSpec == RouteInit /\ [][RouteNext]_vars

\* requestLogger and recordRequest
LoggerNext == AnswerJson \/ AnswerSend
LoggerInit == SearchSpecInit /\ store = [p \in ProblemIds |-> "absent"]
LoggerSpec == LoggerInit /\ [][LoggerNext]_vars

\* CRUD calls over the two tables, NOps at a time
CrudNext ==
    \E o \in Ops :
        \/ AddProblem(o)
        \/ AddEmbeddingGenerated(o)
        \/ AddEmbeddingInserted(o)
        \/ UpdateEmbedding(o)
        \/ EmbeddingProblemSelected(o)
        \/ EmbeddingRegenerated(o)
        \/ EmbeddingUpserted(o)
        \/ UpdateProblem(o)
        \/ DeleteProblem(o)
        \/ OpOver(o)
CrudSpecInit == Init
CrudSpec == CrudSpecInit /\ [][CrudNext]_vars


----------------------------------------------------------------------------
(* Properties of the model loader (Spec) *)

\* C1: model loading is single-flight.  However generateEmbedding and
\* preloadModel calls interleave, at most one pipeline(...) load is in flight,
\* the loading flag is set while it is, and so a caller that arrives during a
\* load waits instead of starting a second one.
C1_SingleFlight ==
    /\ Cardinality(LoadsInFlight) <= 1
    /\ LoadsInFlight # {} => isInitializing

\* A caller is in the wait loop while another caller's load is in flight.
C1_Witness ==
    \E c, d \in Callers : pc[c] = "loading" /\ pc[d] = "polling" /\ waited[d]

\* C2: initializeModel never returns normally without a loaded model: a caller
\* that waited for a load gets the cached model if the load succeeded and an
\* error if it failed.
C2_WaitersObserveLoadResult ==
    \A c \in Callers : pc[c] = "initReturned" => model[c] = "model"

----------------------------------------------------------------------------
(* Properties of searchAllSources (AggSpec) and of the adapters (AdapterSpec) *)

\* C3: for a non-empty string query searchAllSources completes without error
\* whichever sources fail and however they fail; a failed source contributes
\* an empty list and the other sources' results are returned.
C3_NoSourceFailureAborts ==
    /\ (saPc = "done" /\ ~QueryRejected(saQuery)) => saResult.status = "returned"
    /\ saResult.status = "returned" =>
         /\ saResult.sources.stackoverflow.results = ValueOrEmpty(saCall["stackoverflow"])
         /\ saResult.sources.youtube.results = ValueOrEmpty(saCall["youtube"])
         /\ saResult.sources.internal.count = Len(ValueOrEmpty(saCall["internal"]))

AdapterFailed(call) == QueryRejected(call.query) \/ call.http \in HttpFailures

\* C5: searchStackOverflow and searchYouTube never reject: whatever the query
\* and the outcome of the HTTP call, the promise fulfils with a list, and the
\* list is empty when the query is invalid or the HTTP call failed.
C5_AdaptersNeverThrow ==
    adapterCall.adapter # "none" =>
        /\ adapterCall.result.st = "fulfilled"
        /\ DOMAIN adapterCall.result.value = 1..Len(adapterCall.result.value)
        /\ AdapterFailed(adapterCall) => adapterCall.result.value = <<>>

\* searchStackOverflow was answered 429 for a valid query and gave the empty list.
C5_Witness ==
    /\ adapterCall.adapter = "stackoverflow"
    /\ ~QueryRejected(adapterCall.query)
    /\ adapterCall.http = "status429"
    /\ adapterCall.result = [st |-> "fulfilled", value |-> <<>>]

\* The hits of all three sources as searchAllSources received them
ReceivedHits ==
    AllHits(ValueOrEmpty(saCall["internal"]), ValueOrEmpty(saCall["stackoverflow"]),
            ValueOrEmpty(saCall["youtube"]))

\* C10: top_results holds min(10, number of hits) entries, each a hit of one of
\* the sources and none twice, in descending order of rank_score, and no hit
\* left out has a higher rank_score than a hit included.
C10_TopResults ==
    saResult.status = "returned" =>
        LET top == saResult.top_results
            hits == ReceivedHits
        IN  /\ Len(top) = Min(TopN, Len(hits))
            /\ \A i \in 1..Len(top) : top[i] \in Range(hits)
            /\ \A i, j \in 1..Len(top) : i # j => top[i] # top[j]
            /\ \A i, j \in 1..Len(top) : i < j => top[i].rank_score >= top[j].rank_score
            /\ \A h \in Range(hits) \ Range(top) :
                  \A i \in 1..Len(top) : h.rank_score <= top[i].rank_score

\* More than ten hits came in, and a hit of every source is among the ten.
C10_Witness ==
    /\ saResult.status = "returned"
    /\ saResult.total_results > TopN
    /\ Len(saResult.top_results) = TopN
    /\ \A src \in {"internal_db", "stackoverflow", "youtube"} :
          \E i \in 1..TopN : saResult.top_results[i].source = src

\* C11: each source's count is the length of its results list and the number
\* of hits the source delivered (none when it failed), total_results is the sum
\* of the three counts; with 2 internal hits, Stack Overflow failed and 1
\* YouTube hit the call returns the counts 2, 0, 1 and the total 3.
C11_Counts ==
    saResult.status = "returned" =>
        LET src == saResult.sources
        IN  /\ \A s \in Sources :
                  /\ src[s].count = Len(src[s].results)
                  /\ src[s].count = Len(ValueOrEmpty(saCall[s]))
            /\ saResult.total_results =
                  src.internal.count + src.stackoverflow.count + src.youtube.count
            /\ saCall["internal"].st = "rejected" => src.internal.count = 0
            /\ \A s \in saCaught : src[s].count = 0
            /\ (/\ saCall["internal"].st = "fulfilled"
                /\ Len(saCall["internal"].value) = 2
                /\ "stackoverflow" \in saCaught
                /\ Len(saCall["youtube"].value) = 1)
               => /\ src.internal.count = 2
                  /\ src.stackoverflow.count = 0
                  /\ src.youtube.count = 1
                  /\ saResult.total_results = 3

\* The scenario: 2 internal hits, Stack Overflow failed, 1 YouTube hit.
C11_Witness ==
    /\ saResult.status = "returned"
    /\ saCall["internal"].st = "fulfilled"
    /\ Len(saCall["internal"].value) = 2
    /\ "stackoverflow" \in saCaught
    /\ Len(saCall["youtube"].value) = 1
    /\ saResult.total_results = 3

\* The internal hit a top_results entry of source internal_db was made from
InternalHitOf(entry) == saCall["internal"].value[entry.id]

\* C23: in top_results an internal hit has the fused score relevance + 100
\* points, the relevance being its relevance_score, or 100 times its similarity
\* when relevance_score is absent or 0; a YouTube hit has 30 points; and every
\* internal hit of non-negative similarity stands before every YouTube hit.
C23_FusedScores ==
    saResult.status = "returned" =>
        LET top == saResult.top_results
        IN  /\ \A i \in 1..Len(top) :
                  /\ top[i].source = "internal_db" =>
                        LET h == InternalHitOf(top[i])
                        IN  top[i].rank_score =
                              (IF h.hasRelevance /\ h.relevance_score # 0
                               THEN 10 * h.relevance_score ELSE h.similarity) + 1000
                  /\ top[i].source = "youtube" => top[i].rank_score = 300
            /\ \A i, j \in 1..Len(top) :
                  (/\ top[i].source = "internal_db"
                   /\ InternalHitOf(top[i]).similarity >= 0
                   /\ top[j].source = "youtube") => i < j

\* top_results holds a YouTube hit between an internal hit of similarity 0.004
\* with relevance_score 0 and an internal hit of negative similarity.
C23_Witness ==
    /\ saResult.status = "returned"
    /\ \E i, j, k \in 1..Len(saResult.top_results) :
          LET top == saResult.top_results
          IN  /\ i < j /\ j < k
              /\ top[i].source = "internal_db"
              /\ InternalHitOf(top[i]).similarity = 4
              /\ top[j].source = "youtube"
              /\ top[k].source = "internal_db"
              /\ InternalHitOf(top[k]).similarity < 0

----------------------------------------------------------------------------
(* Properties of semanticSearch (SearchSpec) *)

\* The stored embeddings semanticSearch can score, with their similarity to the
\* query embedding of the running search
Usable == {p \in ProblemIds : store[p] # "absent"
                               /\ RowScore[store[p]][ssArgs.queryEmbedding].usable}
SimOf(p) == RowScore[store[p]][ssArgs.queryEmbedding].similarity
Passing == {p \in Usable : SimOf(p) >= ssArgs.threshold}
ResultIds == {ssResult.results[i].id : i \in 1..Len(ssResult.results)}
Returned == ssResult.status = "returned" /\ ssArgs.queryEmbedding # "none"

\* C6: no result of semanticSearch has a similarity below the threshold, and a
\* stored embedding whose similarity equals the threshold passes: it is in the
\* results whenever the limit does not cut the list.
C6_ThresholdFloor ==
    Returned =>
        /\ \A i \in 1..Len(ssResult.results) :
              ssResult.results[i].similarity >= ssArgs.threshold
        /\ Cardinality(Passing) <= ssArgs.limit =>
              \A p \in Usable : SimOf(p) = ssArgs.threshold => p \in ResultIds

\* A result whose similarity equals the threshold, next to one above it.
C6_Witness ==
    /\ Returned
    /\ \E i, j \in 1..Len(ssResult.results) :
          /\ ssResult.results[i].similarity = ssArgs.threshold
          /\ ssResult.results[j].similarity > ssArgs.threshold

\* C7: semanticSearch never returns more than limit results, whatever limit it
\* is called with, and fewer only when fewer candidates pass the threshold.
\* (A limit below 0 is read as admitting no result, so that the empty list
\* never counts as too long.)
C7_AtMostLimit ==
    Returned =>
        /\ Len(ssResult.results) <= Max(ssArgs.limit, 0)
        /\ Len(ssResult.results) < Max(ssArgs.limit, 0) =>
              Len(ssResult.results) = Cardinality(Passing)

\* Position of problem p in the list read from the embeddings table
RowIndex(p) == CHOOSE i \in 1..Len(ssEmbeddings) : ssEmbeddings[i] = p

\* C8: the results are in descending order of similarity, and results of equal
\* similarity are in the order their embeddings had in the list read from the
\* embeddings table.
C8_DescendingStable ==
    Returned =>
        \A i, j \in 1..Len(ssResult.results) : i < j =>
            /\ ssResult.results[i].similarity >= ssResult.results[j].similarity
            /\ ssResult.results[i].similarity = ssResult.results[j].similarity =>
                  RowIndex(ssResult.results[i].id) < RowIndex(ssResult.results[j].id)

\* C9: semanticSearch drops no qualifying candidate.  When at most limit stored
\* embeddings reach the threshold, all of them are in the results; when more
\* do, no candidate left out has a higher similarity than a result.
C9_NoQualifyingDropped ==
    Returned =>
        /\ Cardinality(Passing) <= ssArgs.limit => Passing \subseteq ResultIds
        /\ Cardinality(Passing) > ssArgs.limit =>
              \A p \in Passing \ ResultIds :
                  \A i \in 1..Len(ssResult.results) :
                      SimOf(p) <= ssResult.results[i].similarity

\* More candidates qualify than the limit admits; one with a lower similarity
\* than every result is left out.
C9_Witness ==
    /\ Returned
    /\ ssArgs.limit >= 1
    /\ Len(ssResult.results) = ssArgs.limit
    /\ \E p \in Passing \ ResultIds :
          \A i \in 1..Len(ssResult.results) : SimOf(p) < ssResult.results[i].similarity

\* C12: a search whose query embedding could not be generated (model load or
\* inference failed) or whose read of the stored embeddings failed ends with an
\* error, and returns no list, empty or partial.
C12_EncodingAndReadFailuresPropagate ==
    ssResult.error \in {"embedding_load", "embedding_inference", "readingEmbeddings"}
        => /\ ssResult.status = "threw"
           /\ ssResult.results = <<>>
           /\ ssPc = "done"

\* A search over a store with embeddings that ended at the failed read.
C12_Witness ==
    /\ ssResult.status = "threw"
    /\ ssResult.error = "readingEmbeddings"
    /\ \E p \in ProblemIds : store[p] = "e1"

----------------------------------------------------------------------------
(* Properties of generateEmbedding (Spec) *)

\* A text that is no string, is empty, or holds nothing but whitespace
BadText(t) == ~IsString(t) \/ \A i \in 1..Len(t.s) : t.s[i] = " "

\* C13: a generateEmbedding call with an empty, whitespace-only or non-string
\* text is over with an error at once; it has started no model load and no
\* inference, and the step leaves the cached model and the loading flag as
\* they were.
C13_BadTextRejectedBeforeModel ==
    /\ [](\A c \in Callers :
            (kind[c] = "generateEmbedding" /\ BadText(text[c]))
                => /\ pc[c] = "done"
                   /\ outcome[c] = "error_text"
                   /\ loads[c] = 0
                   /\ inferences[c] = 0)
    /\ [][\A c \in Callers :
            (pc[c] = "idle" /\ kind'[c] = "generateEmbedding" /\ BadText(text'[c]))
                => UNCHANGED <<embedder, isInitializing>>]_vars

\* A whitespace-only text was rejected while no model was loaded and no load
\* was in progress.
C13_Witness ==
    \E c \in Callers :
        /\ text[c] = Str(<<" ">>)
        /\ outcome[c] = "error_text"
        /\ embedder = "null"
        /\ ~isInitializing

\* C15: a generateEmbedding call starts at most one model load and at most one
\* inference; a load is started only in the first step of a call; a call whose
\* load or inference fails ends with an error in the same step, and a call
\* returns an embedding only after one inference on a loaded model.
C15_NoRetry ==
    /\ [](\A c \in Callers :
            /\ loads[c] <= 1
            /\ inferences[c] <= 1
            /\ (kind[c] = "generateEmbedding" /\ outcome[c] = "embedding")
                  => (inferences[c] = 1 /\ model[c] = "model"))
    /\ [][\A c \in Callers :
            /\ loads'[c] > loads[c] => pc[c] = "idle"
            /\ (/\ kind[c] = "generateEmbedding"
                /\ pc[c] = "loading" /\ pc'[c] # "loading" /\ embedder' = "null")
                  => (pc'[c] = "done" /\ outcome'[c] = "error_load")
            /\ (/\ pc[c] = "inferring" /\ pc'[c] # "inferring"
                /\ outcome'[c] # "embedding")
                  => (pc'[c] = "done" /\ outcome'[c] = "error_inference")]_vars

\* A call whose load failed is over with the load error, after one load, while
\* no model is loaded and no load is in progress.
C15_Witness ==
    \E c \in Callers :
        /\ outcome[c] = "error_load"
        /\ loads[c] = 1
        /\ embedder = "null"
        /\ ~isInitializing

\* C22: under fair scheduling a caller that entered the wait loop of
\* initializeModel leaves it again (initializeModel returns to it).
C22_WaiterReturns ==
    \A c \in Callers : (pc[c] = "polling") ~> (pc[c] # "polling")

\* C29: once a load has succeeded the cached model stays, the loading flag is
\* and stays false, no load is in flight and no call starts another load.
C29_LoadedOnce ==
    /\ [](embedder = "model" => (~isInitializing /\ LoadsInFlight = {}))
    /\ [][embedder = "model" =>
            /\ embedder' = "model"
            /\ ~isInitializing'
            /\ \A c \in Callers : loads'[c] <= loads[c]]_vars

\* A call got its embedding from the cached model without starting a load.
C29_Witness ==
    /\ embedder = "model"
    /\ \E c \in Callers : outcome[c] = "embedding" /\ loads[c] = 0

----------------------------------------------------------------------------
(* Properties of generateEmbedding's result (EncodeSpec) *)

\* C14: whatever the length of the model's output, generateEmbedding returns a
\* vector of exactly `dimensions` components: those of the output, in place and
\* unchanged, as far as they go, and zeros after them; the call does not fail.
C14_ExactDimensions ==
    geCall.inferred =>
        /\ geCall.status = "embedding"
        /\ Len(geCall.result) = geCall.dimensions
        /\ \A i \in 1..geCall.dimensions :
              geCall.result[i] = IF i <= Len(geCall.output) THEN geCall.output[i] ELSE 0

\* An output of 385 components was cut to the default 384.
C14_Witness ==
    /\ geCall.inferred
    /\ geCall.dimensions = Dim
    /\ Len(geCall.output) = Dim + 1
    /\ Len(geCall.result) = Dim

----------------------------------------------------------------------------
(* Properties of cosineSimilarity (CosineSpec) *)

IsArray(v) == v.t = "array"
AllZero(v) == \A i \in 1..Len(v.a) : v.a[i] = 0

\* C16: with a missing vector or with vectors of different lengths
\* cosineSimilarity throws and returns no number.
C16_MismatchThrows ==
    (/\ csCall.called
     /\ \/ ~IsArray(csCall.vec1)
        \/ ~IsArray(csCall.vec2)
        \/ Len(csCall.vec1.a) # Len(csCall.vec2.a))
        => csCall.result = Threw

\* Two vectors of different lengths, the second the longer one: the call threw.
C16_Witness ==
    /\ csCall.called
    /\ IsArray(csCall.vec1) /\ IsArray(csCall.vec2)
    /\ Len(csCall.vec1.a) < Len(csCall.vec2.a)
    /\ csCall.result.threw

\* C17: for two vectors of equal length of which at least one has only zero
\* components, cosineSimilarity returns 0 and does not throw.
C17_ZeroMagnitudeGivesZero ==
    (/\ csCall.called
     /\ IsArray(csCall.vec1) /\ IsArray(csCall.vec2)
     /\ Len(csCall.vec1.a) = Len(csCall.vec2.a)
     /\ AllZero(csCall.vec1) \/ AllZero(csCall.vec2))
        => csCall.result = Returned0(0)

\* C18: cosineSimilarity(a, b) and cosineSimilarity(b, a) do the same: both
\* throw, or both return the same value.
C18_Symmetric ==
    csCall.called => csCall.result = csCall.swapped

\* Two different vectors of equal length with a similarity other than 0.
C18_Witness ==
    /\ csCall.called
    /\ csCall.vec1 # csCall.vec2
    /\ ~csCall.result.threw
    /\ csCall.result.value # 0
    /\ csCall.result = csCall.swapped

----------------------------------------------------------------------------
(* Further properties of semanticSearch (SearchSpec) *)

\* C19: a search whose query embedding was generated and whose read of the
\* embeddings did not fail returns the empty list, without error, when the
\* store holds no embedding and when no stored embedding reaches the threshold.
C19_EmptyIsNotAnError ==
    (/\ ssPc = "done"
     /\ ssArgs.queryEmbedding # "none"
     /\ ssResult.error # "readingEmbeddings"
     /\ Passing = {})
        => /\ ssResult.status = "returned"
           /\ ssResult.results = <<>>

\* The store holds an embedding the search can score, and it is below the
\* threshold: the search returned the empty list.
C19_Witness ==
    /\ ssPc = "done"
    /\ ssResult.status = "returned"
    /\ ssResult.results = <<>>
    /\ ssArgs.limit >= 1
    /\ Usable # {}
    /\ Passing = {}

\* The rows of the embeddings query in the order `order`
EmbeddingRows(order) ==
    [i \in 1..Len(order) |-> [problem_id |-> order[i], vector |-> store[order[i]]]]
\* topMatches of a run of the search at hand whose embeddings query answers in
\* the order `order`
TopMatchesOfRun(order) ==
    TopMatches(Similarities(EmbeddingRows(order), ssArgs.queryEmbedding),
               ssArgs.threshold, ssArgs.limit)
\* What such a run returns when its problems query answers in the order `problems`
ResultsOfRun(order, problems) ==
    IF TopMatchesOfRun(order) = <<>> THEN <<>>
    ELSE BuildResults(problems, TopMatchesOfRun(order))

\* C20: every other run of the same search (same query embedding, threshold
\* and limit, same store) returns the list this run returned, in the same
\* order, whatever the order in which the two queries answer with their rows.
C20_Deterministic ==
    (ssPc = "done" /\ Returned) =>
        \A order \in Orders({p \in ProblemIds : store[p] # "absent"}) :
            \A problems \in Orders({TopMatchesOfRun(order)[i].problem_id :
                                        i \in 1..Len(TopMatchesOfRun(order))}) :
                ssResult.results = ResultsOfRun(order, problems)

\* Stored values that cannot be used: a text that does not parse, null, a text
\* that parses to something other than an array
UnusableNames == {"bad", "null", "num"}
IsUsableId(p) == store[p] \notin UnusableNames

\* C24: a stored embedding that cannot be used is in no result and fails no
\* search, and topMatches is what it would be had the embeddings query
\* answered without the rows of such embeddings.
C24_UnusableSkipped ==
    /\ (ssPc \in {"readingProblems", "done"} /\ ssEmbeddings # <<>>)
          => /\ ssResult.error \in {"none", "readingProblems"}
             /\ ssTopMatches = TopMatchesOfRun(SelectSeq(ssEmbeddings, IsUsableId))
    /\ \A p \in ResultIds : IsUsableId(p)

\* The first row read holds an embedding that cannot be used, and the search
\* returned a result.
C24_Witness ==
    /\ ssPc = "done"
    /\ ssResult.status = "returned"
    /\ ssResult.results # <<>>
    /\ ssEmbeddings # <<>>
    /\ ~IsUsableId(ssEmbeddings[1])
    /\ \E p \in ProblemIds : store[p] = "num"

----------------------------------------------------------------------------
(* Properties of POST /api/search (RouteSpec) *)

\* C25: POST /api/search applies the threshold the request supplies as the
\* similarity floor whenever validateSearchParams accepts it (any value from
\* 0 to 1, both included), and the default 0.1 only when the request supplies
\* none: the threshold handed to semanticSearch is the supplied one.
C25_SuppliedThresholdApplied ==
    route.called =>
        route.args.threshold.n =
            IF route.threshold = JUndefined THEN 100 ELSE route.threshold.n

----------------------------------------------------------------------------
(* Properties of the request logger (LoggerSpec) *)

\* C30: the request logger records each request once: requests.total is the
\* number of requests answered, with res.json or with res.send, and it is
\* requests.success + requests.errors.
C30_RecordedOnce ==
    /\ metrics.total = answered
    /\ metrics.total = metrics.success + metrics.errors

----------------------------------------------------------------------------
(* Properties of the CRUD calls (CrudSpec) *)

\* The embeddings stored for a problem
EmbeddingsFor(rows, pid) == {e \in rows : e.problem_id = pid}
\* Problems that were stored and are no longer
DeletedIds == {i \in 1..(nextId - 1) : \A p \in problemsTable : p.id # i}

\* C21: after any sequence of addProblemWithEmbedding, updateProblem,
\* updateEmbedding and deleteProblem calls, the embeddings table holds at most
\* one embedding per problem and none for a problem that has been deleted.
C21_OneEmbeddingPerLiveProblem ==
    /\ \A pid \in 1..(nextId - 1) : Cardinality(EmbeddingsFor(embeddingsTable, pid)) <= 1
    /\ \A e \in embeddingsTable : e.problem_id \notin DeletedIds

\* A problem that was added with its embedding has been deleted by a
\* deleteProblem call, while another problem keeps its embedding.
C21_Witness ==
    /\ embeddingsTable # {}
    /\ \E o1, o2 \in Ops :
          /\ ops[o1].op = "add" /\ ops[o1].flag = "true"
          /\ ops[o2].op = "deleteProblem" /\ ops[o2].status = "returned"
          /\ ops[o2].pid = ops[o1].pid
          /\ ops[o1].pid \in DeletedIds

\* C26: updateEmbedding on a problem that already has a stored embedding
\* succeeds and replaces that embedding with the embedding of the problem's
\* current title and description, leaving exactly one embedding for the
\* problem.  Stated of the step in which the upsert answers.
C26_UpsertReplaces ==
    [][\A o \in Ops :
          (/\ ops[o].op = "updateEmbedding"
           /\ ops[o].pc = "ue-upsert"
           /\ ops'[o].pc = "done"
           /\ HasProblem(problemsTable, ops[o].pid)
           /\ EmbeddingsFor(embeddingsTable, ops[o].pid) # {})
          => LET problem == ProblemRow(problemsTable, ops[o].pid)
                 current == TextForEmbedding(problem.title, problem.description)
             IN  /\ ops'[o].status = "returned"
                 /\ {e.vector : e \in EmbeddingsFor(embeddingsTable', ops[o].pid)}
                       = {EmbeddingOf(current)}
                 /\ Cardinality(EmbeddingsFor(embeddingsTable', ops[o].pid)) = 1]_vars

\* Two updateProblem calls on one problem are over, each with
\* embedding_updated true.
BothEmbeddingUpdated ==
    \E o1, o2 \in Ops :
        /\ o1 # o2
        /\ ops[o1].pid = ops[o2].pid
        /\ \A o \in {o1, o2} :
              /\ ops[o].op = "updateProblem"
              /\ ops[o].status = "returned"
              /\ ops[o].flag = "true"

\* C28: addProblemWithEmbedding leaves the store consistent on failure: if
\* the call fails with an error, no problem record has been added; if it
\* returns, the problem is stored and embedding_created is true exactly when
\* its embedding was stored.  Stated of the step in which the call ends.
C28_AddConsistent ==
    [][\A o \in Ops :
          (ops[o].pc # "done" /\ ops'[o].pc = "done" /\ ops'[o].op = "add")
          => \/ /\ ops'[o].status = "threw"
                /\ ~HasProblem(problemsTable', ops'[o].pid)
             \/ /\ ops'[o].status = "returned"
                /\ HasProblem(problemsTable', ops'[o].pid)
                /\ (ops'[o].flag = "true")
                      <=> (\E e \in embeddingsTable' \ embeddingsTable :
                              e.problem_id = ops'[o].pid)]_vars

====
